---- MODULE Spec2Model ----
(***************************************************************************)
(* Model of the proxy / aggregation core of backend/prediction_api/views.py *)
(*   - _get_tile_size, _get_request_type, _transparent_tile_response       *)
(*   - _make_transparent_png and its memo                                  *)
(*   - bhuvan_wms_proxy, geoserver_proxy                                   *)
(*   - _run_overpass_query, _extract_overpass_count, osm_query             *)
(*   - _overpass_to_feature_collection                                     *)
(*                                                                         *)
(* Python strings are sequences of one-character strings, so that upper(), *)
(* int() and float() are computed rather than assumed.                     *)
(***************************************************************************)
EXTENDS Integers, Sequences, FiniteSets, TLC

VARIABLES
    ts_pc, ts_query, ts_result,
    png_args, png_result, png_hit,
    fc_pc, fc_elements, fc_result,
    geo_pc, geo_request, geo_sent, geo_outcome, geo_resp,
    wms_pc, wms_query, wms_outcome, wms_resp, wms_calls, tile_cache,
    osm_pc, osm_payload, osm_mode, osm_keys, osm_idx, osm_query_ok, osm_contacted,
    datasets, merged_features, osm_resp, osm_calls,
    rq_query, rq_ep, endpoint_errors, rq_contacted, rq_answers, rq_result,
    tk_pc, tk_handler, tk_query, tk_env, tk_debug, tk_outcome, tk_resp,
    cc_pc, cc_query, cc_hit, cc_result

ts_vars == <<ts_pc, ts_query, ts_result>>
png_vars == <<png_args, png_result, png_hit>>
fc_vars == <<fc_pc, fc_elements, fc_result>>
geo_vars == <<geo_pc, geo_request, geo_sent, geo_outcome, geo_resp>>
wms_vars == <<wms_pc, wms_query, wms_outcome, wms_resp, wms_calls, tile_cache>>
rq_vars == <<rq_query, rq_ep, endpoint_errors, rq_contacted, rq_answers, rq_result>>
osm_vars == <<osm_pc, osm_payload, osm_mode, osm_keys, osm_idx, osm_query_ok,
              osm_contacted, datasets, merged_features, osm_resp, osm_calls, rq_vars>>
tk_vars == <<tk_pc, tk_handler, tk_query, tk_env, tk_debug, tk_outcome, tk_resp>>
cc_vars == <<cc_pc, cc_query, cc_hit, cc_result>>
vars == <<ts_vars, png_vars, fc_vars, geo_vars, wms_vars, osm_vars, tk_vars, cc_vars>>

(***************************************************************************)
(* Python values                                                           *)
(***************************************************************************)

\* Python's None where a string is expected (no modelled string has a
\* character of more than one letter, so this value is no string).
None == <<"None">>

Digits == <<"0", "1", "2", "3", "4", "5", "6", "7", "8", "9">>

IsDigit(c) == \E i \in 1..10 : Digits[i] = c

DigitVal(c) == (CHOOSE i \in 1..10 : Digits[i] = c) - 1

LowerLetters == <<"a", "b", "c", "d", "e", "f", "g", "h", "i", "j", "k", "l", "m",
                  "n", "o", "p", "q", "r", "s", "t", "u", "v", "w", "x", "y", "z">>

UpperLetters == <<"A", "B", "C", "D", "E", "F", "G", "H", "I", "J", "K", "L", "M",
                  "N", "O", "P", "Q", "R", "S", "T", "U", "V", "W", "X", "Y", "Z">>

UpperChar(c) ==
    IF \E i \in 1..26 : LowerLetters[i] = c
    THEN UpperLetters[CHOOSE i \in 1..26 : LowerLetters[i] = c]
    ELSE c

\* str.upper()
Upper(s) == [i \in 1..Len(s) |-> UpperChar(s[i])]

IsSpace(c) == c = " "

RECURSIVE LStrip(_)
LStrip(s) == IF s # <<>> /\ IsSpace(Head(s)) THEN LStrip(Tail(s)) ELSE s

RECURSIVE RStrip(_)
RStrip(s) ==
    IF s # <<>> /\ IsSpace(s[Len(s)]) THEN RStrip(SubSeq(s, 1, Len(s) - 1)) ELSE s

\* str.strip()
Strip(s) == LStrip(RStrip(s))

RECURSIVE DigitsValue(_, _)
DigitsValue(s, acc) ==
    IF s = <<>> THEN acc
    ELSE IF Head(s) = "_" THEN DigitsValue(Tail(s), acc)
    ELSE DigitsValue(Tail(s), 10 * acc + DigitVal(Head(s)))

\* The digit part of a decimal literal: digits, single underscores between them.
IsDigitPart(s) ==
    /\ s # <<>>
    /\ IsDigit(s[1])
    /\ IsDigit(s[Len(s)])
    /\ \A i \in 1..Len(s) : IsDigit(s[i]) \/ s[i] = "_"
    /\ \A i \in 1..(Len(s) - 1) : ~(s[i] = "_" /\ s[i + 1] = "_")

\* int(s) for a string s: surrounding white space, an optional sign, decimal
\* digits. ok = FALSE stands for ValueError.
IntOfStr(s) ==
    LET t == Strip(s)
        signed == t # <<>> /\ (t[1] = "-" \/ t[1] = "+")
        body == IF signed THEN Tail(t) ELSE t
        mag == DigitsValue(body, 0)
    IN  IF IsDigitPart(body)
        THEN [ok |-> TRUE, v |-> IF signed /\ t[1] = "-" THEN 0 - mag ELSE mag]
        ELSE [ok |-> FALSE, v |-> 0]

Min(a, b) == IF a <= b THEN a ELSE b

Max(a, b) == IF a >= b THEN a ELSE b

\* QueryDict.get(key, default)
QGet(q, key, default) == IF key \in DOMAIN q THEN q[key] ELSE default

(***************************************************************************)
(* _get_tile_size                                                          *)
(***************************************************************************)

DefaultTileSize == 256

MaxTileSize == 4096

\* One axis: int(request.GET.get(KEY, default)), the default on
\* TypeError / ValueError (each axis has its own try block).
TileAxis(q, key, default) ==
    IF key \in DOMAIN q
    THEN (IF IntOfStr(q[key]).ok THEN IntOfStr(q[key]).v ELSE default)
    ELSE default

ClampTile(v) == Max(1, Min(MaxTileSize, v))

\* Both axes converted in one try block: a failure of either resets both.
GetTileSizeSharedTry(q, default) ==
    LET okW == "WIDTH" \in DOMAIN q => IntOfStr(q["WIDTH"]).ok
        okH == "HEIGHT" \in DOMAIN q => IntOfStr(q["HEIGHT"]).ok
    IN  IF okW /\ okH
        THEN <<ClampTile(TileAxis(q, "WIDTH", default)),
               ClampTile(TileAxis(q, "HEIGHT", default))>>
        ELSE <<ClampTile(default), ClampTile(default)>>

_get_tile_size(q, default) ==
    <<ClampTile(TileAxis(q, "WIDTH", default)),
      ClampTile(TileAxis(q, "HEIGHT", default))>>

(***************************************************************************)
(* _make_transparent_png, _get_request_type, _transparent_tile_response    *)
(***************************************************************************)

\* Byte strings are kept as runs of equal bytes, no two neighbouring runs of
\* the same byte, so that a raster of 4096 x 4096 pixels stays a small value.
Run(byte, count) == [byte |-> byte, count |-> count]

\* b"..." from the list of its bytes
RECURSIVE Bytes(_)
Bytes(bs) ==
    IF bs = <<>> THEN <<>>
    ELSE LET rest == Bytes(Tail(bs))
         IN  IF rest # <<>> /\ rest[1].byte = Head(bs)
             THEN <<Run(Head(bs), rest[1].count + 1)>> \o Tail(rest)
             ELSE <<Run(Head(bs), 1)>> \o rest

\* a + b
BytesConcat(a, b) ==
    IF a = <<>> THEN b
    ELSE IF b = <<>> THEN a
    ELSE IF a[Len(a)].byte = b[1].byte
    THEN SubSeq(a, 1, Len(a) - 1) \o <<Run(b[1].byte, a[Len(a)].count + b[1].count)>> \o Tail(b)
    ELSE a \o b

\* a * n
RECURSIVE BytesRepeat(_, _)
BytesRepeat(a, n) ==
    IF n <= 0 \/ a = <<>> THEN <<>>
    ELSE IF Len(a) = 1 THEN <<Run(a[1].byte, a[1].count * n)>>
    ELSE BytesConcat(a, BytesRepeat(a, n - 1))

\* len(a)
RECURSIVE BytesLen(_)
BytesLen(a) == IF a = <<>> THEN 0 ELSE a[1].count + BytesLen(Tail(a))

\* list(a)
RECURSIVE BytesList(_)
BytesList(a) ==
    IF a = <<>> THEN <<>>
    ELSE IF a[1].count = 1 THEN <<a[1].byte>> \o BytesList(Tail(a))
    ELSE <<a[1].byte>> \o BytesList(<<Run(a[1].byte, a[1].count - 1)>> \o Tail(a))

\* struct.pack("!I", n)
PackU32(n) ==
    <<(n \div 16777216) % 256, (n \div 65536) % 256, (n \div 256) % 256, n % 256>>

\* b"\x89PNG\r\n\x1a\n"
PngSignature == <<137, 80, 78, 71, 13, 10, 26, 10>>

\* _chunk(chunk_type, data): the chunk appended to the stream.  Its length
\* and CRC fields are functions of the type and the data and are left out;
\* deflated = TRUE says the data field is stored as zlib.compress(data).
_chunk(png, chunk_type, data, deflated) ==
    [png EXCEPT !.chunks =
        Append(@, [type |-> chunk_type, data |-> data, deflated |-> deflated])]

\* The raster with three bytes per pixel (RGB) instead of four.
EncodeTransparentPngRgb(width, height) ==
    LET ihdr == Bytes(PackU32(width) \o PackU32(height) \o <<8, 6, 0, 0, 0>>)
        row == BytesConcat(Bytes(<<0>>), BytesRepeat(Bytes(<<0>>), width * 3))
        raw == BytesRepeat(row, height)
    IN  _chunk(_chunk(_chunk([signature |-> PngSignature, chunks |-> <<>>],
                             "IHDR", ihdr, FALSE),
                      "IDAT", raw, TRUE),
               "IEND", <<>>, FALSE)

\* The body of _make_transparent_png after the cache miss: the signature,
\* then IHDR, IDAT (the compressed raster) and IEND.
EncodeTransparentPng(width, height) ==
    LET ihdr == Bytes(PackU32(width) \o PackU32(height) \o <<8, 6, 0, 0, 0>>)
        row == BytesConcat(Bytes(<<0>>), BytesRepeat(Bytes(<<0>>), width * 4))
        raw == BytesRepeat(row, height)
    IN  _chunk(_chunk(_chunk([signature |-> PngSignature, chunks |-> <<>>],
                             "IHDR", ihdr, FALSE),
                      "IDAT", raw, TRUE),
               "IEND", <<>>, FALSE)

EmptyCache == [k \in {} |-> EncodeTransparentPng(1, 1)]

\* The sizes replaced by (1, 1) only when both are below 1.
MakeTransparentPngBothBelowOne(cache, width, height) ==
    LET degenerate == width <= 0 /\ height <= 0
        w == IF degenerate THEN 1 ELSE width
        h == IF degenerate THEN 1 ELSE height
        cache_key == <<w, h>>
        data == EncodeTransparentPng(w, h)
    IN  IF cache_key \in DOMAIN cache
        THEN [data |-> cache[cache_key], cache |-> cache]
        ELSE [data |-> data,
              cache |-> [k \in DOMAIN cache \cup {cache_key} |->
                            IF k = cache_key THEN data ELSE cache[k]]]

\* The memo keyed by the width alone.
MakeTransparentPngKeyWidth(cache, width, height) ==
    LET degenerate == width <= 0 \/ height <= 0
        w == IF degenerate THEN 1 ELSE width
        h == IF degenerate THEN 1 ELSE height
        cache_key == <<w, w>>
        data == EncodeTransparentPng(w, h)
    IN  IF cache_key \in DOMAIN cache
        THEN [data |-> cache[cache_key], cache |-> cache]
        ELSE [data |-> data,
              cache |-> [k \in DOMAIN cache \cup {cache_key} |->
                            IF k = cache_key THEN data ELSE cache[k]]]

\* _make_transparent_png(width, height) on cache `cache`: the bytes returned
\* and the cache afterwards.
_make_transparent_png(cache, width, height) ==
    LET degenerate == width <= 0 \/ height <= 0
        w == IF degenerate THEN 1 ELSE width
        h == IF degenerate THEN 1 ELSE height
        cache_key == <<w, h>>
        data == EncodeTransparentPng(w, h)
    IN  IF cache_key \in DOMAIN cache
        THEN [data |-> cache[cache_key], cache |-> cache]
        ELSE [data |-> data,
              cache |-> [k \in DOMAIN cache \cup {cache_key} |->
                            IF k = cache_key THEN data ELSE cache[k]]]

\* x or y, for strings and None
PyOr(x, y) == IF x = None \/ x = <<>> THEN y ELSE x

_get_request_type(q) ==
    Upper(PyOr(PyOr(QGet(q, "REQUEST", None), QGet(q, "request", None)), <<>>))

GETMAP == <<"G", "E", "T", "M", "A", "P">>

\* The value of the X-Proxy-WMS-Error header: f"Bhuvan {upstream_status}"
ProxyErrorHeader(upstream_status) ==
    [name |-> "X-Proxy-WMS-Error", text |-> "Bhuvan", status |-> upstream_status]

\* _transparent_tile_response(request, upstream_status); every caller of the
\* modelled handlers passes a status, so the header is always set.
_transparent_tile_response(cache, q, upstream_status) ==
    LET size == _get_tile_size(q, DefaultTileSize)
        made == _make_transparent_png(cache, size[1], size[2])
    IN  [resp |-> [status |-> 200,
                   content_type |-> "image/png",
                   body |-> [kind |-> "png", png |-> made.data],
                   headers |-> {ProxyErrorHeader(upstream_status)}],
         cache |-> made.cache]

(***************************************************************************)
(* bhuvan_wms_proxy                                                        *)
(***************************************************************************)

\* The exception classes the upstream call can raise and their direct bases
\* (requests.exceptions; "RuntimeError" stands for any exception outside
\* that hierarchy).
ExcBases(c) ==
    CASE c = "SSLError" -> {"ConnectionError"}
      [] c = "ProxyError" -> {"ConnectionError"}
      [] c = "ConnectTimeout" -> {"ConnectionError", "Timeout"}
      [] c = "ReadTimeout" -> {"Timeout"}
      [] c = "ConnectionError" -> {"RequestException"}
      [] c = "Timeout" -> {"RequestException"}
      [] c = "TooManyRedirects" -> {"RequestException"}
      [] c = "ChunkedEncodingError" -> {"RequestException"}
      [] c = "RequestException" -> {"Exception"}
      [] c = "RuntimeError" -> {"Exception"}
      [] c = "HTTPError" -> {"URLError"}
      [] c = "URLError" -> {"OSError"}
      [] c = "TimeoutError" -> {"OSError"}
      [] c = "RemoteDisconnected" -> {"OSError"}
      [] c = "OSError" -> {"Exception"}
      [] OTHER -> {}

RECURSIVE IsInstance(_, _)
IsInstance(c, k) == c = k \/ \E b \in ExcBases(c) : IsInstance(b, k)

RaisedClasses ==
    {"SSLError", "ProxyError", "ConnectTimeout", "ReadTimeout", "ConnectionError",
     "Timeout", "TooManyRedirects", "ChunkedEncodingError", "RuntimeError"}

UpstreamStatuses == {200, 204, 404, 503}

\* len(response.text)
WmsErrorSnippet == 300

TextLens == {0, 7, 301}

\* The Content-Type header of the upstream response ("" when it has none).
ContentTypes == {"", "image/jpeg"}

HttpOutcomes ==
    [kind : {"http"}, status : UpstreamStatuses, ctype : ContentTypes,
     textlen : TextLens, exc : {""}]

ExcOutcomes ==
    [kind : {"exc"}, status : {0}, ctype : {""}, textlen : {0}, exc : RaisedClasses]

NoOutcome == [kind |-> "none", status |-> 0, ctype |-> "", textlen |-> 0, exc |-> ""]

PlainText(status, msg) ==
    [status |-> status, content_type |-> "text/plain", body |-> msg, headers |-> {}]

\* The first except clause that matches, in the order of the handler.
WmsExceptClause(exc) ==
    IF IsInstance(exc, "SSLError") THEN "SSLError"
    ELSE IF IsInstance(exc, "ConnectionError") THEN "ConnectionError"
    ELSE IF IsInstance(exc, "Timeout") THEN "Timeout"
    ELSE "Exception"

\* The status each except clause answers with (and reports in the header).
WmsClauseStatus(clause) ==
    CASE clause = "SSLError" -> 502
      [] clause = "ConnectionError" -> 502
      [] clause = "Timeout" -> 504
      [] OTHER -> 500

\* A failure answered as an error instead of a tile when the request is GetMap.
WmsFailureNoTile(cache, q, status, text) ==
    [resp |-> PlainText(status, text), cache |-> cache]

\* The tail shared by the failure branches: the tile for GETMAP, else text.
WmsFailure(cache, q, status, text) ==
    IF _get_request_type(q) = GETMAP
    THEN _transparent_tile_response(cache, q, status)
    ELSE [resp |-> PlainText(status, text), cache |-> cache]

\* Every non-GetMap failure answered 502, whatever the upstream said.
WmsRespondAlways502(cache, q, o) ==
    IF o.kind = "http" /\ o.status = 200
    THEN [resp |-> [status |-> 200,
                    content_type |-> IF o.ctype = "" THEN "image/png" ELSE o.ctype,
                    body |-> [kind |-> "upstream", len |-> o.textlen],
                    headers |-> {}],
          cache |-> cache]
    ELSE WmsFailure(cache, q, 502, [kind |-> "text", msg |-> "error"])

\* The response of bhuvan_wms_proxy to query q when the upstream call ended
\* with outcome o, and the tile cache afterwards.
WmsRespond(cache, q, o) ==
    IF o.kind = "http"
    THEN IF o.status = 200
         THEN [resp |-> [status |-> 200,
                         content_type |-> IF o.ctype = "" THEN "image/png" ELSE o.ctype,
                         body |-> [kind |-> "upstream", len |-> o.textlen],
                         headers |-> {}],
               cache |-> cache]
         ELSE WmsFailure(cache, q, o.status,
                         [kind |-> "text", msg |-> "Bhuvan WMS Error",
                          upstream |-> o.status,
                          detail |-> IF o.textlen > 0
                                     THEN Min(o.textlen, WmsErrorSnippet) ELSE 0])
    ELSE LET clause == WmsExceptClause(o.exc)
         IN  WmsFailure(cache, q, WmsClauseStatus(clause),
                        [kind |-> "text", msg |-> clause])

GetMapValues ==
    { <<"G", "e", "t", "M", "a", "p">>, <<"g", "e", "t", "m", "a", "p">> }

GetCapabilities ==
    <<"G", "e", "t", "C", "a", "p", "a", "b", "i", "l", "i", "t", "i", "e", "s">>

EmptyQuery == [k \in {} |-> <<>>]

\* The REQUEST parameter of the inbound query string, in several casings of
\* its name and of its value.
RequestParams ==
    {EmptyQuery}
    \cup {("REQUEST" :> v) : v \in GetMapValues \cup {GetCapabilities, <<>>}}
    \cup {("request" :> v) : v \in GetMapValues \cup {GetCapabilities}}
    \cup {("Request" :> v) : v \in GetMapValues}
    \cup {("REQUEST" :> <<>>) @@ ("request" :> <<"G", "e", "t", "M", "a", "p">>)}

WmsSizeParams ==
    {EmptyQuery, ("WIDTH" :> <<"0">>), ("HEIGHT" :> <<"5", "0", "0", "0">>),
     ("WIDTH" :> <<"a", "b", "c">>) @@ ("HEIGHT" :> <<"6", "4">>)}

WmsQueries == {r @@ z : r \in RequestParams, z \in WmsSizeParams}

\* The inbound request arrives; the handler builds the URL and the headers.
bhuvan_wms_proxy_enter ==
    /\ wms_pc \in {"idle", "done"}
    /\ \E q \in WmsQueries : wms_query' = q
    /\ wms_pc' = "calling"
    /\ wms_outcome' = NoOutcome
    /\ wms_resp' = <<>>
    /\ wms_calls' = 0
    /\ UNCHANGED <<cc_vars, tk_vars, tile_cache, ts_vars, png_vars, fc_vars, geo_vars, osm_vars>>

\* An upstream call that is made once more after a failed outcome.
bhuvan_session_get_retrying ==
    /\ wms_pc = "calling"
    /\ \E o \in HttpOutcomes \cup ExcOutcomes :
        /\ wms_outcome' = o
        /\ wms_pc' = IF (o.kind = "exc" \/ o.status # 200) /\ wms_calls = 0
                     THEN "calling" ELSE "returned"
    /\ wms_calls' = wms_calls + 1
    /\ UNCHANGED <<cc_vars, tk_vars, wms_query, wms_resp, tile_cache, ts_vars, png_vars, fc_vars, geo_vars, osm_vars>>

\* _bhuvan_session.get(...): the single upstream call and its outcome.
bhuvan_session_get ==
    /\ wms_pc = "calling"
    /\ \E o \in HttpOutcomes \cup ExcOutcomes : wms_outcome' = o
    /\ wms_calls' = wms_calls + 1
    /\ wms_pc' = "returned"
    /\ UNCHANGED <<cc_vars, tk_vars, wms_query, wms_resp, tile_cache, ts_vars, png_vars, fc_vars, geo_vars, osm_vars>>

\* The branch of the handler that answers, and the response it returns.
bhuvan_wms_proxy_return ==
    /\ wms_pc = "returned"
    /\ LET r == WmsRespond(tile_cache, wms_query, wms_outcome)
       IN  /\ wms_resp' = Append(wms_resp, r.resp)
           /\ tile_cache' = r.cache
    /\ wms_pc' = "done"
    /\ UNCHANGED <<cc_vars, tk_vars, wms_query, wms_outcome, wms_calls, ts_vars, png_vars, fc_vars, geo_vars, osm_vars>>

WmsInit ==
    /\ wms_pc = "idle"
    /\ wms_query = EmptyQuery
    /\ wms_outcome = NoOutcome
    /\ wms_resp = <<>>
    /\ wms_calls = 0
    /\ tile_cache = EmptyCache

(***************************************************************************)
(* geoserver_proxy                                                         *)
(***************************************************************************)

GeoserverBase == "http://192.168.20.57:5855/geoserver"

\* error_body[:200]
GeoErrorSnippet == 200

\* The path captured by the URL pattern
GeoPaths == { <<>>, <<"w", "m", "s">>, <<"/", "o", "w", "s">> }

\* One parameter of a query string as it is written: key, "=" or not, value
Param(key, eq, value) == [key |-> key, eq |-> eq, value |-> value]

\* The query strings of the inbound requests: none, two parameters, one
\* of them a key without "="
GeoQueryStrings ==
    { <<>>,
      <<Param("service", TRUE, "WMS"), Param("request", TRUE, "GetMap")>>,
      <<Param("service", TRUE, "WFS"), Param("strict", FALSE, "")>> }

\* request.GET: the (key, value) pairs of the query string, blank values kept
ParseQuery(qs) == [i \in 1..Len(qs) |-> <<qs[i].key, qs[i].value>>]

\* QueryDict.urlencode(): key=value for every pair
UrlEncode(pairs) == [i \in 1..Len(pairs) |-> Param(pairs[i][1], TRUE, pairs[i][2])]

GeoRequests ==
    [method : {"GET", "POST"}, path : GeoPaths, query : GeoQueryStrings,
     has_body : BOOLEAN]

NoGeoRequest == [method |-> "", path |-> <<>>, query |-> <<>>, has_body |-> FALSE]

\* Request(url, headers=...) as urlopen sends it: no data is given, so
\* Request.get_method() is GET.
GeoUpstreamRequest(request) ==
    LET path == IF request.path # <<>> /\ request.path[1] # "/"
                THEN <<"/">> \o request.path ELSE request.path
        query_params == UrlEncode(ParseQuery(request.query))
    IN  [method |-> "GET",
         base |-> GeoserverBase,
         path |-> path,
         has_query |-> query_params # <<>>,
         query |-> query_params,
         has_body |-> FALSE,
         user_agent |-> "smart-city-webgis",
         timeout |-> 30]

\* What happens to the upstream call: an answer with a status, or a failure
\* of the transport.
GeoAnswers ==
    [kind : {"http"}, status : {200, 201, 204, 404, 500, 502},
     ctype : {"", "application/xml"}, bodylen : {0, 150, 250}, event : {""}]

GeoTransportEvents ==
    {"dns_failure", "connection_refused", "connect_timeout", "response_timeout",
     "remote_disconnected"}

GeoFailures ==
    [kind : {"transport"}, status : {0}, ctype : {""}, bodylen : {0},
     event : GeoTransportEvents]

NoGeoOutcome == [kind |-> "none", status |-> 0, ctype |-> "", bodylen |-> 0, event |-> ""]

\* urlopen(req, timeout=30) and resp.read(): "" when they return, else the
\* class of the exception raised.  A status outside 2xx raises HTTPError;
\* an OSError while connecting or sending is wrapped into URLError; one
\* raised while the response is awaited or read is not wrapped.
UrlopenRaises(o) ==
    IF o.kind = "http"
    THEN (IF o.status \in 200..299 THEN "" ELSE "HTTPError")
    ELSE CASE o.event = "dns_failure" -> "URLError"
           [] o.event = "connection_refused" -> "URLError"
           [] o.event = "connect_timeout" -> "URLError"
           [] o.event = "response_timeout" -> "TimeoutError"
           [] OTHER -> "RemoteDisconnected"

\* The first except clause that matches, in the order of the handler.
GeoExceptClause(exc) ==
    IF IsInstance(exc, "HTTPError") THEN "HTTPError"
    ELSE IF IsInstance(exc, "URLError") THEN "URLError"
    ELSE "Exception"

\* The response of geoserver_proxy when the upstream call ended with o.
GeoRespond(o) ==
    LET exc == UrlopenRaises(o)
    IN  IF exc = ""
        THEN [status |-> 200,
              content_type |-> IF o.ctype = "" THEN "image/png" ELSE o.ctype,
              body |-> [kind |-> "upstream", len |-> o.bodylen],
              headers |-> {}]
        ELSE IF GeoExceptClause(exc) = "HTTPError"
        THEN PlainText(o.status, [kind |-> "text", msg |-> "GeoServer proxy error",
                                  upstream |-> o.status,
                                  detail |-> Min(o.bodylen, GeoErrorSnippet)])
        ELSE IF GeoExceptClause(exc) = "URLError"
        THEN PlainText(502, [kind |-> "text", msg |-> "GeoServer connection error",
                             port |-> 5855])
        ELSE PlainText(500, [kind |-> "text", msg |-> "Unexpected error"])

\* The inbound request arrives; the handler builds the URL and the Request.
geoserver_proxy_enter ==
    /\ geo_pc = "idle"
    /\ \E r \in GeoRequests : geo_request' = r
    /\ geo_pc' = "calling"
    /\ UNCHANGED <<cc_vars, tk_vars, geo_sent, geo_outcome, geo_resp, ts_vars, png_vars, fc_vars, wms_vars,
                   osm_vars>>

\* urlopen(req, timeout=30): the upstream request goes out and ends.
geoserver_urlopen ==
    /\ geo_pc = "calling"
    /\ geo_sent' = Append(geo_sent, GeoUpstreamRequest(geo_request))
    /\ \E o \in GeoAnswers \cup GeoFailures : geo_outcome' = o
    /\ geo_pc' = "returned"
    /\ UNCHANGED <<cc_vars, tk_vars, geo_request, geo_resp, ts_vars, png_vars, fc_vars, wms_vars, osm_vars>>

\* The branch of the handler that answers, and the response it returns.
geoserver_proxy_return ==
    /\ geo_pc = "returned"
    /\ geo_resp' = Append(geo_resp, GeoRespond(geo_outcome))
    /\ geo_pc' = "done"
    /\ UNCHANGED <<cc_vars, tk_vars, geo_request, geo_sent, geo_outcome, ts_vars, png_vars, fc_vars, wms_vars,
                   osm_vars>>

GeoIdle ==
    /\ geo_pc = "idle"
    /\ geo_request = NoGeoRequest
    /\ geo_sent = <<>>
    /\ geo_outcome = NoGeoOutcome
    /\ geo_resp = <<>>

(***************************************************************************)
(* JSON values (request payloads, Overpass answers)                        *)
(***************************************************************************)

JNull == [t |-> "null"]

JBool(b) == [t |-> "bool", b |-> b]

JInt(i) == [t |-> "int", i |-> i]

JStr(s) == [t |-> "str", s |-> s]

JList(items) == [t |-> "list", items |-> items]

JDict(fields) == [t |-> "dict", fields |-> fields]

NoFields == [k \in {} |-> JNull]

\* dict.get(key): None when the key is missing
DictGet(d, key) == IF key \in DOMAIN d.fields THEN d.fields[key] ELSE JNull

\* Python truth value
Truthy(v) ==
    CASE v.t = "null" -> FALSE
      [] v.t = "bool" -> v.b
      [] v.t = "int" -> v.i # 0
      [] v.t = "str" -> v.s # <<>>
      [] v.t = "list" -> v.items # <<>>
      [] v.t = "dict" -> DOMAIN v.fields # {}

\* isinstance(v, (int, float)): bool is a subclass of int
IsNumber(v) == v.t \in {"int", "bool"}

LowerChar(c) ==
    IF \E i \in 1..26 : UpperLetters[i] = c
    THEN LowerLetters[CHOOSE i \in 1..26 : UpperLetters[i] = c]
    ELSE c

\* str.lower()
Lower(s) == [i \in 1..Len(s) |-> LowerChar(s[i])]

\* int(v): ok = FALSE stands for TypeError / ValueError
IntOf(v) ==
    CASE v.t = "int" -> [ok |-> TRUE, v |-> v.i]
      [] v.t = "bool" -> [ok |-> TRUE, v |-> IF v.b THEN 1 ELSE 0]
      [] v.t = "str" -> IntOfStr(v.s)
      [] OTHER -> [ok |-> FALSE, v |-> 0]

\* float(v) on the integer-valued samples of the model: ok = FALSE stands
\* for TypeError / ValueError
FloatOf(v) == IntOf(v)

(***************************************************************************)
(* _get_tile_size as a function of the raw WIDTH / HEIGHT parameters       *)
(***************************************************************************)

RawSizes ==
    { <<"0">>, <<"5", "0", "0", "0">>, <<"a", "b", "c">>, <<"6", "4">>, <<>>,
      <<"-", "3">>, <<"4", "0", "9", "6">>, <<"4", "0", "9", "7">>, <<"1">>,
      <<" ", "7", " ">>, <<"+", "9">>, <<"6", ".", "5">>, <<"1", "_", "0">>,
      <<"9", "9", "9", "9", "9", "9", "9", "9", "9">>, <<"-">> }

TileQueries ==
    {EmptyQuery}
    \cup {("WIDTH" :> w) : w \in RawSizes}
    \cup {("HEIGHT" :> h) : h \in RawSizes}
    \cup {("WIDTH" :> w) @@ ("HEIGHT" :> h) : w \in RawSizes, h \in RawSizes}

TileInit ==
    /\ ts_pc = "start"
    /\ ts_query \in TileQueries
    /\ ts_result = <<0, 0>>

get_tile_size_call ==
    /\ ts_pc = "start"
    /\ ts_result' = _get_tile_size(ts_query, DefaultTileSize)
    /\ ts_pc' = "returned"
    /\ UNCHANGED <<cc_vars, tk_vars, ts_query, png_vars, fc_vars, geo_vars, wms_vars, osm_vars>>

TileIdle == ts_pc = "start" /\ ts_query = EmptyQuery /\ ts_result = <<0, 0>>

(***************************************************************************)
(* _make_transparent_png called any number of times on the shared cache    *)
(***************************************************************************)

\* The widths and heights asked for: degenerate ones, the smallest, the
\* largest _get_tile_size lets through.
PngDims == {-1, 0, 1, 2, 4096}

NoPng == [signature |-> <<>>, chunks |-> <<>>]

make_transparent_png_call ==
    /\ \E width \in PngDims, height \in PngDims :
        LET made == _make_transparent_png(tile_cache, width, height)
        IN  /\ png_args' = <<width, height>>
            /\ png_result' = made.data
            /\ png_hit' = (made.cache = tile_cache)
            /\ tile_cache' = made.cache
    /\ UNCHANGED <<cc_vars, tk_vars, ts_vars, fc_vars, geo_vars, osm_vars, wms_pc, wms_query, wms_outcome, wms_resp, wms_calls>>

PngIdle == png_args = <<0, 0>> /\ png_result = NoPng /\ png_hit = FALSE

(***************************************************************************)
(* bhuvan_lulc_stats, bhuvan_routing, bhuvan_lulc_aoi                      *)
(***************************************************************************)

TokenHandlers == {"bhuvan_lulc_stats", "bhuvan_routing", "bhuvan_lulc_aoi"}

S_0506 == <<"0", "5", "0", "6">>

S_1112 == <<"1", "1", "1", "2">>

S_json == <<"j", "s", "o", "n">>

S_pie == <<"p", "i", "e">>

\* Response({"error": msg}, status=400)
TokenBadRequest(msg) ==
    [status |-> 400, content_type |-> "application/json",
     body |-> [kind |-> "error", msg |-> msg, code |-> 0, shows |-> {}]]

\* The label of a handler in its error texts
TokenLabel(handler) ==
    CASE handler = "bhuvan_lulc_stats" -> "Bhuvan LULC stats"
      [] handler = "bhuvan_routing" -> "Bhuvan routing"
      [] handler = "bhuvan_lulc_aoi" -> "Bhuvan LULC AOI"

\* The environment variable a handler reads its token from
TokenEnvName(handler) ==
    IF handler = "bhuvan_routing" THEN "BHUVAN_ROUTING_TOKEN" ELSE "BHUVAN_LULC_TOKEN"

\* token = request.GET.get("token") or os.getenv(...)
TokenOf(q, env) == PyOr(QGet(q, "token", None), env)

Given(q, name) == PyOr(QGet(q, name, None), <<>>) # <<>>

\* The handler up to its upstream call: the 400 it returns, or the
\* parameters it sends upstream.
TokenProxyPrepare(handler, q, env) ==
    LET token == TokenOf(q, env)
        missing_token ==
            [ok |-> FALSE, params |-> EmptyQuery,
             resp |-> TokenBadRequest("Missing token. Provide token or set " \o
                                      TokenEnvName(handler) \o ".")]
        Send(params) == [ok |-> TRUE, params |-> params, resp |-> TokenBadRequest("")]
        Refuse(msg) == [ok |-> FALSE, params |-> EmptyQuery, resp |-> TokenBadRequest(msg)]
    IN  CASE handler = "bhuvan_lulc_stats" ->
                LET year == QGet(q, "year", None)
                    mode == Lower(PyOr(QGet(q, "mode", None), S_json))
                IN  IF ~Given(q, "year") \/ year \notin {S_0506, S_1112}
                    THEN Refuse("Invalid year. Use 0506 or 1112.")
                    ELSE IF ~Given(q, "distcode") /\ ~Given(q, "statcode")
                    THEN Refuse("Provide statcode or distcode.")
                    ELSE IF token = None \/ token = <<>> THEN missing_token
                    ELSE IF mode \notin {S_json, S_pie}
                    THEN Refuse("Invalid mode. Use json or pie.")
                    ELSE Send(("year" :> year) @@ ("token" :> token)
                              @@ (IF Given(q, "distcode")
                                  THEN "distcode" :> q["distcode"]
                                  ELSE "statcode" :> q["statcode"]))
          [] handler = "bhuvan_routing" ->
                IF \E k \in {"lat1", "lon1", "lat2", "lon2"} : ~Given(q, k)
                THEN Refuse("Provide lat1, lon1, lat2, lon2.")
                ELSE IF token = None \/ token = <<>> THEN missing_token
                ELSE Send([k \in {"lat1", "lon1", "lat2", "lon2"} |-> q[k]]
                          @@ ("token" :> token))
          [] handler = "bhuvan_lulc_aoi" ->
                IF ~Given(q, "geom") THEN Refuse("Missing geom (WKT).")
                ELSE IF token = None \/ token = <<>> THEN missing_token
                ELSE Send(("geom" :> q["geom"]) @@ ("token" :> token))

\* An exception that leaves the view: the framework's answer.  With DEBUG
\* on it is the technical error page, which prints the exception (for a
\* requests exception its text carries the URL of the call with its query
\* string) and the parameters of the inbound request; with DEBUG off it is
\* the plain server error page.
TokenUnhandled(debug, exc, q, params) ==
    IF debug
    THEN [status |-> 500, content_type |-> "text/html",
          body |-> [kind |-> "error", msg |-> exc, code |-> 0,
                    shows |-> {q[k] : k \in DOMAIN q} \cup {params[k] : k \in DOMAIN params}]]
    ELSE [status |-> 500, content_type |-> "text/html",
          body |-> [kind |-> "error", msg |-> "Server Error (500)", code |-> 0, shows |-> {}]]

\* The try statement around the upstream call, for outcome o.
TokenProxyRespond(handler, o, debug, q, params) ==
    IF o.kind = "http"
    THEN IF o.status = 200
         THEN [status |-> 200, content_type |-> o.ctype,
               body |-> [kind |-> "upstream", msg |-> "", code |-> 0, shows |-> {}]]
         ELSE [status |-> o.status, content_type |-> "text/plain",
               body |-> [kind |-> "error", msg |-> TokenLabel(handler) \o " error",
                         code |-> o.status, shows |-> {}]]
    ELSE IF IsInstance(o.exc, "Timeout")
    THEN [status |-> 504, content_type |-> "text/plain",
          body |-> [kind |-> "error", msg |-> TokenLabel(handler) \o " request timed out.",
                    code |-> 0, shows |-> {}]]
    ELSE IF handler # "bhuvan_lulc_stats" /\ IsInstance(o.exc, "RequestException")
    THEN [status |-> 502, content_type |-> "text/plain",
          body |-> [kind |-> "error", msg |-> TokenLabel(handler) \o " request failed.",
                    code |-> 0, shows |-> {}]]
    ELSE TokenUnhandled(debug, o.exc, q, params)

\* The whole handler for a request whose upstream call ends with o
TokenProxy(handler, q, env, debug, o) ==
    LET prep == TokenProxyPrepare(handler, q, env)
    IN  IF prep.ok THEN TokenProxyRespond(handler, o, debug, q, prep.params)
        ELSE prep.resp

TokenValues == {<<"A">>, <<"B">>}

\* The inbound queries: each required parameter present, empty or absent,
\* with and without a token.
TokenQueries(handler) ==
    LET tokens == {EmptyQuery} \cup {("token" :> t) : t \in TokenValues}
        base ==
            CASE handler = "bhuvan_lulc_stats" ->
                    {y @@ c @@ m :
                        y \in {EmptyQuery, "year" :> S_0506, "year" :> <<"9">>},
                        c \in {EmptyQuery, "distcode" :> <<"d">>, "statcode" :> <<"s">>},
                        m \in {EmptyQuery, "mode" :> <<"P", "I", "E">>, "mode" :> <<"x">>}}
              [] handler = "bhuvan_routing" ->
                    {[k \in {"lat1", "lon1", "lat2", "lon2"} |-> <<"1">>],
                     [k \in {"lat1", "lon1", "lat2"} |-> <<"1">>],
                     [k \in {"lat1", "lon1", "lat2", "lon2"} |->
                         IF k = "lon2" THEN <<>> ELSE <<"1">>]}
              [] handler = "bhuvan_lulc_aoi" ->
                    {EmptyQuery, "geom" :> <<"P", "O", "I", "N", "T">>}
    IN  {b @@ t : b \in base, t \in tokens}

TokenOutcomes ==
    {[kind |-> "http", status |-> st, ctype |-> "application/json", exc |-> ""] :
        st \in {200, 401, 503}}
    \cup {[kind |-> "exc", status |-> 0, ctype |-> "", exc |-> e] :
             e \in {"ReadTimeout", "ConnectTimeout", "ConnectionError", "SSLError",
                    "TooManyRedirects"}}

NoTokenOutcome == [kind |-> "none", status |-> 0, ctype |-> "", exc |-> ""]

\* No request yet; the deployment's token variable is unset
TokenIdle ==
    /\ tk_pc = "idle"
    /\ tk_handler = ""
    /\ tk_query = EmptyQuery
    /\ tk_env = None
    /\ tk_debug = FALSE
    /\ tk_outcome = NoTokenOutcome
    /\ tk_resp = <<>>

\* A deployment: DEBUG on or off, the token variable set or not
TokenInit ==
    /\ tk_pc = "idle"
    /\ tk_handler = ""
    /\ tk_query = EmptyQuery
    /\ tk_env \in {None, <<"E">>}
    /\ tk_debug \in BOOLEAN
    /\ tk_outcome = NoTokenOutcome
    /\ tk_resp = <<>>

\* The inbound request arrives; the handler validates it and either answers
\* 400 or goes on to its upstream call.
token_proxy_enter ==
    /\ tk_pc = "idle"
    /\ \E handler \in TokenHandlers :
        \E q \in TokenQueries(handler) :
            LET prep == TokenProxyPrepare(handler, q, tk_env)
            IN  /\ tk_handler' = handler
                /\ tk_query' = q
                /\ IF prep.ok
                   THEN tk_pc' = "calling" /\ tk_resp' = <<>>
                   ELSE tk_pc' = "done" /\ tk_resp' = <<prep.resp>>
    /\ UNCHANGED <<cc_vars, tk_env, tk_debug, tk_outcome, ts_vars, png_vars, fc_vars, geo_vars,
                   wms_vars, osm_vars>>

\* session.get(base_url, params=params, ...): the upstream call and its outcome
token_session_get ==
    /\ tk_pc = "calling"
    /\ \E o \in TokenOutcomes : tk_outcome' = o
    /\ tk_pc' = "returned"
    /\ UNCHANGED <<cc_vars, tk_handler, tk_query, tk_env, tk_debug, tk_resp, ts_vars, png_vars,
                   fc_vars, geo_vars, wms_vars, osm_vars>>

token_proxy_return ==
    /\ tk_pc = "returned"
    /\ tk_resp' = <<TokenProxyRespond(tk_handler, tk_outcome, tk_debug, tk_query,
                                      TokenProxyPrepare(tk_handler, tk_query, tk_env).params)>>
    /\ tk_pc' = "done"
    /\ UNCHANGED <<cc_vars, tk_handler, tk_query, tk_env, tk_debug, tk_outcome, ts_vars, png_vars,
                   fc_vars, geo_vars, wms_vars, osm_vars>>

(***************************************************************************)
(* Concurrent requests that reach _make_transparent_png through            *)
(* _transparent_tile_response: the reads and writes of the shared cache    *)
(* are the steps that interleave                                           *)
(***************************************************************************)

\* Requests served at the same time
NumCallers == 2

Callers == 1..NumCallers

\* cache_key = (width, height), after the degenerate sizes are replaced
PngCacheKey(width, height) ==
    IF width <= 0 \/ height <= 0 THEN <<1, 1>> ELSE <<width, height>>

\* A store that drops every other entry of the cache.
CacheStoreEvicting(cache, cache_key, data) == cache_key :> data

\* _TRANSPARENT_TILE_CACHE[cache_key] = data
CacheStore(cache, cache_key, data) ==
    [k \in DOMAIN cache \cup {cache_key} |-> IF k = cache_key THEN data ELSE cache[k]]

\* The key of caller p: width, height = _get_tile_size(request)
CallerKey(p) ==
    LET size == _get_tile_size(cc_query[p], DefaultTileSize)
    IN  PngCacheKey(size[1], size[2])

CallersIdle ==
    /\ cc_pc = [p \in Callers |-> "idle"]
    /\ cc_query = [p \in Callers |-> EmptyQuery]
    /\ cc_hit = [p \in Callers |-> FALSE]
    /\ cc_result = [p \in Callers |-> NoPng]

\* A request reaches _transparent_tile_response.
tile_response_enter ==
    /\ \E p \in Callers :
        /\ cc_pc[p] = "idle"
        /\ \E q \in WmsSizeParams : cc_query' = [cc_query EXCEPT ![p] = q]
        /\ cc_pc' = [cc_pc EXCEPT ![p] = "get"]
    /\ UNCHANGED <<cc_hit, cc_result, ts_vars, png_vars, fc_vars, geo_vars, wms_vars,
                   osm_vars, tk_vars>>

\* cached = _TRANSPARENT_TILE_CACHE.get(cache_key); if cached: return cached
make_png_cache_get ==
    /\ \E p \in Callers :
        /\ cc_pc[p] = "get"
        /\ IF CallerKey(p) \in DOMAIN tile_cache
           THEN /\ cc_result' = [cc_result EXCEPT ![p] = tile_cache[CallerKey(p)]]
                /\ cc_hit' = [cc_hit EXCEPT ![p] = TRUE]
                /\ cc_pc' = [cc_pc EXCEPT ![p] = "done"]
           ELSE /\ cc_pc' = [cc_pc EXCEPT ![p] = "store"]
                /\ UNCHANGED <<cc_hit, cc_result>>
    /\ UNCHANGED <<cc_query, ts_vars, png_vars, fc_vars, geo_vars, wms_vars, osm_vars, tk_vars>>

\* The caller that missed encodes the tile, stores it and returns it.
make_png_cache_store ==
    /\ \E p \in Callers :
        /\ cc_pc[p] = "store"
        /\ LET data == EncodeTransparentPng(CallerKey(p)[1], CallerKey(p)[2])
           IN  /\ tile_cache' = CacheStore(tile_cache, CallerKey(p), data)
               /\ cc_result' = [cc_result EXCEPT ![p] = data]
        /\ cc_pc' = [cc_pc EXCEPT ![p] = "done"]
    /\ UNCHANGED <<cc_query, cc_hit, ts_vars, png_vars, fc_vars, geo_vars, osm_vars, tk_vars,
                   wms_pc, wms_query, wms_outcome, wms_resp, wms_calls>>

(***************************************************************************)
(* Overpass: static tables                                                 *)
(***************************************************************************)

\* Mirrors appended through the OVERPASS_ENDPOINTS environment variable.
NumExtraEndpoints == 1

ExtraEndpointNames ==
    <<"extra-1/api/interpreter", "extra-2/api/interpreter", "extra-3/api/interpreter">>

_OVERPASS_ENDPOINTS ==
    <<"overpass-api.de/api/interpreter", "overpass.kumi.systems/api/interpreter">>
    \o SubSeq(ExtraEndpointNames, 1, NumExtraEndpoints)

S_roads == <<"r", "o", "a", "d", "s">>

S_buildings == <<"b", "u", "i", "l", "d", "i", "n", "g", "s">>

S_amenities == <<"a", "m", "e", "n", "i", "t", "i", "e", "s">>

S_water == <<"w", "a", "t", "e", "r">>

S_green == <<"g", "r", "e", "e", "n">>

\* _OSM_DATASETS, in insertion order: key and element-filter fragment
_OSM_DATASETS ==
    << [key |-> S_roads, filter |-> "way[highway]"],
       [key |-> S_buildings, filter |-> "way[building]"],
       [key |-> S_amenities, filter |-> "node[amenity];way[amenity]"],
       [key |-> S_water, filter |-> "way[waterway];way[natural=water];way[landuse=reservoir]"],
       [key |-> S_green, filter |-> "way[leisure=park];way[landuse=grass];way[landuse=forest]"] >>

DatasetKeys == {_OSM_DATASETS[i].key : i \in 1..Len(_OSM_DATASETS)}

DatasetFilter(key) ==
    _OSM_DATASETS[CHOOSE i \in 1..Len(_OSM_DATASETS) : _OSM_DATASETS[i].key = key].filter

(***************************************************************************)
(* _run_overpass_query: one iteration of the endpoint loop                 *)
(***************************************************************************)

OverpassSnippet == 120

NoDiag == [endpoint |-> "", reason |-> "", status |-> 0, len |-> 0]

\* The answer of one endpoint: an HTTP response (status, the kind of its
\* body, the parsed value of a JSON body, the length of its text with white
\* space collapsed) or a requests exception (len is the length of str(err)).
OverpassResponse(status, body, json, len) ==
    [kind |-> "response", status |-> status, body |-> body, json |-> json,
     len |-> len, exc |-> ""]

OverpassException(exc, len) ==
    [kind |-> "exc", status |-> 0, body |-> "", json |-> JNull, len |-> len, exc |-> exc]

\* resp.ok
ResponseOk(status) == status < 400

\* An iteration that returns whatever parses, the status not looked at.
OverpassAttemptIgnoresStatus(endpoint, o) ==
    IF o.kind = "response" /\ o.body = "json"
    THEN [returned |-> TRUE, json |-> o.json, diag |-> NoDiag]
    ELSE [returned |-> FALSE, json |-> JNull,
          diag |-> [endpoint |-> endpoint, reason |-> "failed", status |-> 0,
                    len |-> o.len]]

\* One iteration of the loop body for `endpoint` with answer o: the value
\* returned, or the entry appended to endpoint_errors.
OverpassAttempt(endpoint, o) ==
    IF o.kind = "exc"
    THEN [returned |-> FALSE, json |-> JNull,
          diag |-> [endpoint |-> endpoint, reason |-> "failed", status |-> 0,
                    len |-> o.len]]
    ELSE IF ~ResponseOk(o.status)
    THEN [returned |-> FALSE, json |-> JNull,
          diag |-> [endpoint |-> endpoint, reason |-> "returned", status |-> o.status,
                    len |-> Min(o.len, OverpassSnippet)]]
    ELSE IF o.body = "json"
    THEN [returned |-> TRUE, json |-> o.json, diag |-> NoDiag]
    ELSE IF o.body = "brace"
    THEN [returned |-> FALSE, json |-> JNull,
          diag |-> [endpoint |-> endpoint, reason |-> "returned invalid JSON payload",
                    status |-> 0, len |-> 0]]
    ELSE [returned |-> FALSE, json |-> JNull,
          diag |-> [endpoint |-> endpoint, reason |-> "returned non-JSON payload",
                    status |-> 0, len |-> Min(o.len, OverpassSnippet)]]

\* Only the latest failure is kept.
AppendDiagOverwrites(errors, diag) == <<diag>>

\* endpoint_errors.append(...)
AppendDiag(errors, diag) == Append(errors, diag)

\* How a call ended.
Returned(json) == [kind |-> "return", json |-> json, exc |-> "", msg |-> <<>>]

\* RuntimeError("All Overpass endpoints failed. " + " | ".join(endpoint_errors))
Raised(exc, msg) == [kind |-> "raise", json |-> JNull, exc |-> exc, msg |-> msg]

NoResult == [kind |-> "none", json |-> JNull, exc |-> "", msg |-> <<>>]

\* str(err) as carried into a response: the exception and the number of
\* per-endpoint entries of its message.
ErrText(end) == [exc |-> end.exc, entries |-> Len(end.msg)]

NoCause == [exc |-> "", entries |-> 0]

(***************************************************************************)
(* _extract_overpass_count                                                 *)
(***************************************************************************)

\* ok = FALSE: the AttributeError of (tags or {}).get on a value that is
\* no dict, which the function does not catch.
_extract_overpass_count(json_data) ==
    IF json_data.t # "dict" THEN [ok |-> TRUE, v |-> 0]
    ELSE LET elements == DictGet(json_data, "elements")
         IN  IF elements.t # "list" \/ elements.items = <<>>
             THEN [ok |-> TRUE, v |-> 0]
             ELSE LET first == IF elements.items[1].t = "dict"
                               THEN elements.items[1] ELSE JDict(NoFields)
                      tags == DictGet(first, "tags")
                      src == IF Truthy(tags) THEN tags ELSE JDict(NoFields)
                  IN  IF src.t # "dict" THEN [ok |-> FALSE, v |-> 0]
                      ELSE LET total == IF "total" \in DOMAIN src.fields
                                        THEN src.fields["total"] ELSE JInt(0)
                           IN  IF IntOf(total).ok
                               THEN [ok |-> TRUE, v |-> IntOf(total).v]
                               ELSE [ok |-> TRUE, v |-> 0]


(***************************************************************************)
(* _overpass_to_feature_collection                                         *)
(***************************************************************************)

S_node == <<"n", "o", "d", "e">>

S_way == <<"w", "a", "y">>

\* The number a JSON number (or bool) compares as
NumVal(v) == IF v.t = "int" THEN v.i ELSE IF v.b THEN 1 ELSE 0

\* [lon, lat] == [lon', lat']
CoordEq(a, b) == NumVal(a[1]) = NumVal(b[1]) /\ NumVal(a[2]) = NumVal(b[2])

Converted(features) == [ok |-> TRUE, features |-> features, exc |-> ""]

ConvertFailed(exc) == [ok |-> FALSE, features |-> <<>>, exc |-> exc]

\* The properties with the element's own tags winning over the three
\* entries the translator adds.
FeaturePropsTagsWin(element, osm_type, category) ==
    LET tags == DictGet(element, "tags")
        src == IF Truthy(tags) THEN tags ELSE JDict(NoFields)
    IN  IF src.t # "dict" THEN [ok |-> FALSE, props |-> NoFields]
        ELSE [ok |-> TRUE,
              props |-> src.fields @@ ("osm_id" :> DictGet(element, "id"))
                        @@ ("osm_type" :> JStr(osm_type)) @@ ("category" :> JStr(category))]

\* props = dict(element.get("tags") or {}); props.update({osm_id, osm_type,
\* category}).  ok = FALSE: dict() of a value that is no mapping.
FeatureProps(element, osm_type, category) ==
    LET tags == DictGet(element, "tags")
        src == IF Truthy(tags) THEN tags ELSE JDict(NoFields)
    IN  IF src.t # "dict" THEN [ok |-> FALSE, props |-> NoFields]
        ELSE [ok |-> TRUE,
              props |-> [k \in DOMAIN src.fields \cup {"osm_id", "osm_type", "category"} |->
                            CASE k = "osm_id" -> DictGet(element, "id")
                              [] k = "osm_type" -> JStr(osm_type)
                              [] k = "category" -> JStr(category)
                              [] OTHER -> src.fields[k]]]

\* The vertices of a way that have numeric lon and lat, as [lon, lat] pairs
WayCoords(geom) ==
    LET Usable(pt) == IsNumber(DictGet(pt, "lon")) /\ IsNumber(DictGet(pt, "lat"))
        kept == SelectSeq(geom.items, Usable)
    IN  [i \in 1..Len(kept) |-> <<DictGet(kept[i], "lon"), DictGet(kept[i], "lat")>>]

\* A way is taken for closed whenever its ends meet, however short it is.
IsClosedAnyLength(coords) == CoordEq(coords[1], coords[Len(coords)])

\* is_closed = len(coords) >= 4 and coords[0] == coords[-1]
IsClosed(coords) == Len(coords) >= 4 /\ CoordEq(coords[1], coords[Len(coords)])

\* The loop body for one element: the feature appended (if any), or the
\* exception that leaves the function.
ElementFeature(element, category) ==
    IF element.t # "dict" THEN ConvertFailed("AttributeError")
    ELSE IF DictGet(element, "type") = JStr(S_node)
    THEN LET lat == DictGet(element, "lat")
             lon == DictGet(element, "lon")
             p == FeatureProps(element, S_node, category)
         IN  IF ~(IsNumber(lat) /\ IsNumber(lon)) THEN Converted(<<>>)
             ELSE IF ~p.ok THEN ConvertFailed("TypeError")
             ELSE Converted(<< [type |-> "Feature",
                                geometry |-> [type |-> "Point", point |-> <<lon, lat>>],
                                properties |-> p.props] >>)
    ELSE IF DictGet(element, "type") = JStr(S_way)
    THEN LET g == DictGet(element, "geometry")
             geom == IF Truthy(g) THEN g ELSE JList(<<>>)
         IN  IF geom.t \in {"dict", "str"} THEN ConvertFailed("AttributeError")
             ELSE IF geom.t # "list" THEN ConvertFailed("TypeError")
             ELSE IF \E i \in 1..Len(geom.items) : geom.items[i].t # "dict"
             THEN ConvertFailed("AttributeError")
             ELSE LET coords == WayCoords(geom)
                      is_closed == IsClosed(coords)
                      p == FeatureProps(element, S_way, category)
                  IN  IF Len(coords) < 2 THEN Converted(<<>>)
                      ELSE IF ~p.ok THEN ConvertFailed("TypeError")
                      ELSE Converted(<< [type |-> "Feature",
                                         geometry |-> IF is_closed
                                                      THEN [type |-> "Polygon", rings |-> <<coords>>]
                                                      ELSE [type |-> "LineString", line |-> coords],
                                         properties |-> p.props] >>)
    ELSE Converted(<<>>)

RECURSIVE ConvertElements(_, _, _)
ConvertElements(items, category, features) ==
    IF items = <<>> THEN Converted(features)
    ELSE LET r == ElementFeature(Head(items), category)
         IN  IF r.ok THEN ConvertElements(Tail(items), category, features \o r.features)
             ELSE r

\* for element in elements or []: ...
_overpass_to_feature_collection(elements, category) ==
    IF ~Truthy(elements) THEN Converted(<<>>)
    ELSE IF elements.t = "list" THEN ConvertElements(elements.items, category, <<>>)
    ELSE IF elements.t \in {"dict", "str"} THEN ConvertFailed("AttributeError")
    ELSE ConvertFailed("TypeError")

RECURSIVE SeqsUpTo(_, _)
SeqsUpTo(S, n) ==
    IF n = 0 THEN {<<>>}
    ELSE LET shorter == SeqsUpTo(S, n - 1)
         IN  shorter \cup {Append(q, x) : q \in shorter, x \in S}

(***************************************************************************)
(* _overpass_to_feature_collection applied to upstream element lists       *)
(***************************************************************************)

Vertex(lon, lat) == JDict(("lon" :> lon) @@ ("lat" :> lat))

S_bad == <<"b", "a", "d">>

\* Way vertices: three corners, one with lat = "bad"
VertexSamples ==
    {Vertex(JInt(0), JInt(0)), Vertex(JInt(1), JInt(0)), Vertex(JInt(1), JInt(1)),
     Vertex(JInt(0), JStr(S_bad))}

\* Longest vertex list tried
MaxVertices == 5

Way(id, geometry) ==
    JDict(("type" :> JStr(S_way)) @@ ("id" :> JInt(id)) @@ ("geometry" :> geometry)
          @@ ("tags" :> JDict("highway" :> JStr(<<"p">>))))

Node(id, lat, lon) ==
    JDict(("type" :> JStr(S_node)) @@ ("id" :> JInt(id)) @@ ("lat" :> lat) @@ ("lon" :> lon))

\* Vertices with a missing, null or boolean coordinate
OddVertices ==
    {JDict("lat" :> JInt(0)), Vertex(JNull, JInt(0)), Vertex(JBool(TRUE), JInt(0))}

\* One way per vertex list
WayInputs ==
    {JList(<<Way(7, JList(g))>>) : g \in SeqsUpTo(VertexSamples, MaxVertices)}
    \cup {JList(<<Way(7, JList(<<Vertex(JInt(0), JInt(0)), v, Vertex(JInt(1), JInt(1))>>))>>) :
             v \in OddVertices}
    \cup {JList(<<JDict(("type" :> JStr(S_way)) @@ ("id" :> JInt(7)))>>),
          JList(<<JDict(("type" :> JStr(S_way)) @@ ("geometry" :> JNull))>>)}

\* Tags that use the names of the three entries the translator adds
ReservedTags ==
    JDict(("osm_id" :> JStr(<<"x">>)) @@ ("osm_type" :> JStr(S_node))
          @@ ("category" :> JStr(S_water)) @@ ("name" :> JStr(<<"n">>)))

TaggedNode(tags) ==
    JDict(("type" :> JStr(S_node)) @@ ("id" :> JInt(9)) @@ ("lat" :> JInt(1))
          @@ ("lon" :> JInt(2)) @@ ("tags" :> tags))

TaggedWay(tags) ==
    JDict(("type" :> JStr(S_way)) @@ ("id" :> JInt(8)) @@ ("tags" :> tags)
          @@ ("geometry" :> JList(<<Vertex(JInt(0), JInt(0)), Vertex(JInt(1), JInt(1))>>)))

\* Nodes and ways whose tags are plain, empty or use the reserved names
TaggedInputs ==
    LET tagsets == {ReservedTags, JDict("name" :> JStr(<<"n">>)), JDict(NoFields),
                    JDict("category" :> JStr(S_water))}
        tagged == {TaggedNode(t) : t \in tagsets} \cup {TaggedWay(t) : t \in tagsets}
    IN  {JList(<<e>>) : e \in tagged}
        \cup {JList(<<TaggedWay(ReservedTags), e>>) : e \in tagged}

\* Elements with a field missing, null or of another type than expected
OddElements ==
    {Node(1, JInt(1), JInt(2)),
     Node(2, JStr(S_bad), JInt(2)),
     Node(3, JInt(1), JNull),
     JDict(("type" :> JStr(S_node)) @@ ("lat" :> JInt(1))),
     JDict(("type" :> JStr(S_node)) @@ ("lat" :> JInt(1)) @@ ("lon" :> JInt(2))
           @@ ("tags" :> JStr(<<"x">>))),
     JDict(("type" :> JStr(S_node)) @@ ("lat" :> JInt(1)) @@ ("lon" :> JInt(2))
           @@ ("tags" :> JNull)),
     Node(4, JBool(TRUE), JInt(2)),
     JDict(("type" :> JStr(<<"r", "e", "l", "a", "t", "i", "o", "n">>)) @@ ("id" :> JInt(5))),
     JDict("id" :> JInt(6)),
     JDict(("type" :> JInt(3)) @@ ("id" :> JInt(6))),
     JNull,
     JStr(<<"x">>),
     Way(8, JList(<<Vertex(JInt(0), JInt(0)), JNull, Vertex(JInt(1), JInt(1))>>)),
     Way(9, JList(<<Vertex(JInt(0), JInt(0)), Vertex(JInt(1), JInt(1))>>)),
     Way(10, JStr(<<"x">>)),
     Way(11, JInt(4))}

ElementInputs ==
    {JList(<<e>>) : e \in OddElements}
    \cup {JList(<<a, b>>) : a \in OddElements, b \in OddElements}
    \cup {JNull, JList(<<>>), JStr(<<"x">>), JInt(3)}

FcInit ==
    /\ fc_pc = "start"
    /\ fc_elements \in WayInputs \cup ElementInputs \cup TaggedInputs
    /\ fc_result = Converted(<<>>)

overpass_to_feature_collection_call ==
    /\ fc_pc = "start"
    /\ fc_result' = _overpass_to_feature_collection(fc_elements, S_roads)
    /\ fc_pc' = "returned"
    /\ UNCHANGED <<cc_vars, tk_vars, fc_elements, ts_vars, png_vars, geo_vars, wms_vars, osm_vars>>

FcIdle == fc_pc = "start" /\ fc_elements = JNull /\ fc_result = Converted(<<>>)

(***************************************************************************)
(* osm_query: the request up to the first Overpass query                   *)
(***************************************************************************)

S_availability == <<"a", "v", "a", "i", "l", "a", "b", "i", "l", "i", "t", "y">>

S_fetch == <<"f", "e", "t", "c", "h">>

\* str(v): a string as it is; the text of any other value is never one of
\* the two mode names.
PyStr(v) == IF v.t = "str" THEN v.s ELSE <<"?">>

\* Every mode that is not fetch is taken for availability.
OsmModeLenient(payload) ==
    LET m == DictGet(payload, "mode")
        mode == Lower(Strip(PyStr(IF Truthy(m) THEN m ELSE JStr(S_availability))))
    IN  IF mode = S_fetch THEN S_fetch ELSE S_availability

\* str(payload.get("mode") or "availability").strip().lower()
OsmMode(payload) ==
    LET m == DictGet(payload, "mode")
    IN  Lower(Strip(PyStr(IF Truthy(m) THEN m ELSE JStr(S_availability))))

\* The two range / order tests on the four floats; "" when both pass.
BboxCheckNoOrder(min_lon, min_lat, max_lon, max_lat) ==
    IF ~(/\ -180 <= min_lon /\ min_lon <= 180 /\ -180 <= max_lon /\ max_lon <= 180
         /\ -90 <= min_lat /\ min_lat <= 90 /\ -90 <= max_lat /\ max_lat <= 90)
    THEN "bbox coordinates are out of range."
    ELSE ""

BboxCheck(min_lon, min_lat, max_lon, max_lat) ==
    IF ~(/\ -180 <= min_lon /\ min_lon <= 180 /\ -180 <= max_lon /\ max_lon <= 180
         /\ -90 <= min_lat /\ min_lat <= 90 /\ -90 <= max_lat /\ max_lat <= 90)
    THEN "bbox coordinates are out of range."
    ELSE IF min_lon >= max_lon \/ min_lat >= max_lat
    THEN "bbox min values must be smaller than max values."
    ELSE ""

\* The bbox written in the order it came in, longitude first.
BboxExprLonFirst(min_lon, min_lat, max_lon, max_lat) == <<min_lon, min_lat, max_lon, max_lat>>

\* bbox_expr = f"{min_lat},{min_lon},{max_lat},{max_lon}"
BboxExpr(min_lon, min_lat, max_lon, max_lat) == <<min_lat, min_lon, max_lat, max_lon>>

NoBbox == <<0, 0, 0, 0>>

\* The Overpass QL text of one category
OverpassQuery(mode, key, bbox_expr) ==
    [timeout |-> IF mode = S_availability THEN 25 ELSE 50,
     filter |-> DatasetFilter(key),
     bbox |-> bbox_expr,
     out |-> IF mode = S_availability THEN "count" ELSE "body geom"]

NoQuery == [timeout |-> 0, filter |-> "", bbox |-> NoBbox, out |-> ""]

Rejected(status, msg, mode) ==
    [status |-> status, msg |-> msg, mode |-> mode, bbox_expr |-> NoBbox, keys |-> <<>>]

Accepted(mode, bbox_expr, keys) ==
    [status |-> 0, msg |-> "", mode |-> mode, bbox_expr |-> bbox_expr, keys |-> keys]

\* c in _OSM_DATASETS raises TypeError for an unhashable c
Unhashable(v) == v.t \in {"list", "dict"}

\* [c for c in categories if c in _OSM_DATASETS]
SelectedCategories(items) ==
    LET Known(c) == c.t = "str" /\ c.s \in DatasetKeys
        kept == SelectSeq(items, Known)
    IN  [i \in 1..Len(kept) |-> kept[i].s]

\* osm_query from its first line to the first query: the 4xx answer, or the
\* mode, the bbox expression and the category keys to query in order.
\* Status 500 is the TypeError that leaves the view.
OsmPlan(payload) ==
    LET mode == OsmMode(payload)
        bbox == DictGet(payload, "bbox")
        c == DictGet(payload, "categories")
        categories == IF Truthy(c) THEN c ELSE JList(<<>>)
    IN  IF bbox.t # "list" \/ Len(bbox.items) # 4
        THEN Rejected(400, "bbox must be [minLon, minLat, maxLon, maxLat].", mode)
        ELSE IF \E i \in 1..4 : ~FloatOf(bbox.items[i]).ok
        THEN Rejected(400, "bbox values must be numeric.", mode)
        ELSE LET min_lon == FloatOf(bbox.items[1]).v
                 min_lat == FloatOf(bbox.items[2]).v
                 max_lon == FloatOf(bbox.items[3]).v
                 max_lat == FloatOf(bbox.items[4]).v
                 bad == BboxCheck(min_lon, min_lat, max_lon, max_lat)
                 bbox_expr == BboxExpr(min_lon, min_lat, max_lon, max_lat)
             IN  IF bad # "" THEN Rejected(400, bad, mode)
                 ELSE IF mode = S_availability
                 THEN Accepted(mode, bbox_expr,
                               [i \in 1..Len(_OSM_DATASETS) |-> _OSM_DATASETS[i].key])
                 ELSE IF mode = S_fetch
                 THEN IF categories.t # "list" \/ categories.items = <<>>
                      THEN Rejected(400, "categories must be a non-empty list.", mode)
                      ELSE IF \E i \in 1..Len(categories.items) :
                                   Unhashable(categories.items[i])
                      THEN Rejected(500, "TypeError: unhashable type", mode)
                      ELSE IF SelectedCategories(categories.items) = <<>>
                      THEN Rejected(400, "No valid categories selected.", mode)
                      ELSE Accepted(mode, bbox_expr, SelectedCategories(categories.items))
                 ELSE Rejected(400, "mode must be 'availability' or 'fetch'.", mode)


(***************************************************************************)
(* osm_query: the answers                                                  *)
(***************************************************************************)

OsmError(status, msg, cause) ==
    [status |-> status, body |-> [error |-> [msg |-> msg, cause |-> cause]]]

\* The datasets entry of one category, from how its query ended: the
\* except clause of the loop also catches what _extract_overpass_count raises.
AvailabilityEntry(key, end) ==
    IF end.kind = "return"
    THEN IF _extract_overpass_count(end.json).ok
         THEN [key |-> key, count |-> JInt(_extract_overpass_count(end.json).v)]
         ELSE [key |-> key, count |-> JNull,
               error |-> [exc |-> "AttributeError", entries |-> 0]]
    ELSE [key |-> key, count |-> JNull, error |-> ErrText(end)]

\* The answer of availability mode once every category has its entry.
AvailabilityResponse(ds) ==
    LET available_count == Cardinality({i \in 1..Len(ds) : ds[i].count.t = "int"})
    IN  IF available_count = 0
        THEN [status |-> 502,
              body |-> [error |-> [msg |-> "OSM availability failed for all datasets.",
                                   cause |-> NoCause],
                        datasets |-> ds]]
        ELSE [status |-> 200,
              body |-> [datasets |-> ds, partial |-> available_count # Len(ds)]]

\* A category that failed is skipped and the fetch goes on.
FetchCategorySkipsFailure(key, end) ==
    IF end.kind = "raise" THEN Converted(<<>>)
    ELSE _overpass_to_feature_collection(
             IF end.json.t = "dict" THEN DictGet(end.json, "elements") ELSE JList(<<>>),
             key)

\* The body of the fetch loop after the query of `key` ended: its features,
\* or the exception that reaches the except clause of the view.
FetchCategory(key, end) ==
    IF end.kind = "raise" THEN ConvertFailed(end.exc)
    ELSE _overpass_to_feature_collection(
             IF end.json.t = "dict" THEN DictGet(end.json, "elements") ELSE JList(<<>>),
             key)

FetchResponse(features, selected) ==
    [status |-> 200,
     body |-> [type |-> "FeatureCollection", features |-> features,
               categories |-> selected]]

(***************************************************************************)
(* Inputs of the Overpass engine                                           *)
(***************************************************************************)

J_count7 ==
    JDict("elements" :> JList(<< JDict(("type" :> JStr(<<"c", "o", "u", "n", "t">>))
                                       @@ ("id" :> JInt(0))
                                       @@ ("tags" :> JDict("total" :> JStr(<<"7">>)))) >>))

J_node ==
    JDict("elements" :> JList(<< JDict(("type" :> JStr(S_node)) @@ ("id" :> JInt(11))
                                       @@ ("lat" :> JInt(1)) @@ ("lon" :> JInt(2))
                                       @@ ("tags" :> JDict("amenity" :> JStr(<<"c">>)))) >>))

J_badtags ==
    JDict("elements" :> JList(<< JDict(("type" :> JStr(<<"c", "o", "u", "n", "t">>))
                                       @@ ("tags" :> JStr(<<"x">>))) >>))

J_strelem == JDict("elements" :> JList(<< JStr(<<"x">>) >>))

JsonSamples == {J_count7, J_node, J_badtags, J_strelem, JList(<<>>)}

OverpassOutcomes ==
    {OverpassResponse(200, "json", j, 40) : j \in JsonSamples}
    \cup {OverpassResponse(429, "json", J_count7, 40),
          OverpassResponse(504, "text", JNull, 200),
          OverpassResponse(200, "text", JNull, 200),
          OverpassResponse(200, "brace", JNull, 50),
          OverpassException("ConnectionError", 500)}

\* The answers tried under osm_query: every JSON sample, one HTTP failure
\* and one transport failure (the view sees of a failed call only the
\* RuntimeError; the failure modes of one endpoint are told apart where
\* _run_overpass_query is run on its own).
OsmOutcomes ==
    {OverpassResponse(200, "json", j, 40) : j \in JsonSamples}
    \cup {OverpassResponse(504, "text", JNull, 200),
          OverpassException("ConnectionError", 500)}

LonSamples == {-181, -180, 180, 181}

LatSamples == {-91, -90, 90, 91}

JInts(b) == JList([i \in 1..Len(b) |-> JInt(b[i])])

GoodBbox == JInts(<<0, 0, 10, 10>>)

BboxSamples ==
    {JInts(<<a, b, c, d>>) : a \in LonSamples, b \in LatSamples,
                              c \in LonSamples, d \in LatSamples}
    \cup {GoodBbox, JInts(<<-200, 0, 10, 10>>), JInts(<<10, 0, 5, 10>>),
          JInts(<<0, 10, 10, 10>>), JInts(<<0, 0, 10>>), JInts(<<0, 0, 10, 10, 10>>),
          JStr(<<"0", ",", "0">>), JNull,
          JList(<<JStr(<<"0">>), JInt(0), JStr(<<" ", "1", "0">>), JInt(10)>>),
          JList(<<JInt(0), JStr(<<"x">>), JInt(10), JInt(10)>>),
          JList(<<JInt(0), JInt(0), JNull, JInt(10)>>)}

S_bogus == <<"b", "o", "g", "u", "s">>

MaxCategories == 2

CategoryNames == {S_roads, S_water, S_bogus}

CategorySamples ==
    {JList([i \in 1..Len(q) |-> JStr(q[i])]) : q \in SeqsUpTo(CategoryNames, MaxCategories)}
    \cup {JNull, JStr(S_roads), JList(<<JInt(5)>>), JList(<<JStr(S_roads), JList(<<>>)>>)}

ModeSamples ==
    {JNull, JStr(S_availability), JStr(<<" ", "F", "e", "t", "c", "h", " ">>),
     JStr(S_fetch), JStr(<<"p", "u", "r", "g", "e">>), JInt(5)}

\* The JSON object with the given members, a JNull member left out
Payload(mode, bbox, categories) ==
    LET all == ("mode" :> mode) @@ ("bbox" :> bbox) @@ ("categories" :> categories)
    IN  JDict([k \in {x \in DOMAIN all : all[x] # JNull} |-> all[k]])

Payloads ==
    {Payload(JNull, b, JNull) : b \in BboxSamples}
    \cup {Payload(m, GoodBbox, JNull) : m \in ModeSamples}
    \cup {Payload(m, GoodBbox, JList(<<JStr(S_water), JStr(S_bogus)>>)) : m \in ModeSamples}
    \cup {Payload(JStr(S_fetch), b, c) : b \in {GoodBbox, JInts(<<10, 0, 5, 10>>)},
                                         c \in CategorySamples}
    \cup {Payload(JStr(S_fetch), JInts(<<1, 2, 30, 40>>), JList(<<JStr(S_water)>>))}

(***************************************************************************)
(* osm_query and _run_overpass_query as steps                              *)
(***************************************************************************)

\* _run_overpass_query(query) is entered: endpoint_errors = [], first endpoint
StartCall(query) ==
    /\ rq_query' = query
    /\ rq_ep' = 1
    /\ endpoint_errors' = <<>>
    /\ rq_contacted' = <<>>
    /\ rq_answers' = <<>>
    /\ rq_result' = NoResult

\* The view is entered with a payload and runs up to its first query (or to
\* the answer it gives without one).  Requests share no state, so one
\* request is followed from its arrival to its answer.
osm_query_enter ==
    /\ osm_pc = "idle"
    /\ \E payload \in Payloads :
        LET plan == OsmPlan(payload)
        IN  /\ osm_payload' = payload
            /\ osm_mode' = plan.mode
            /\ osm_keys' = plan.keys
            /\ IF plan.status = 0
               THEN /\ osm_pc' = "query"
                    /\ osm_resp' = <<>>
                    /\ StartCall(OverpassQuery(plan.mode, plan.keys[1], plan.bbox_expr))
               ELSE /\ osm_pc' = "done"
                    /\ osm_resp' = <<OsmError(plan.status, plan.msg, NoCause)>>
                    /\ StartCall(NoQuery)
    /\ osm_idx' = 1
    /\ osm_query_ok' = <<>>
    /\ osm_contacted' = FALSE
    /\ osm_calls' = 0
    /\ datasets' = <<>>
    /\ merged_features' = <<>>
    /\ UNCHANGED <<cc_vars, tk_vars, ts_vars, png_vars, fc_vars, geo_vars, wms_vars>>

\* The call that just ended was the last step of the request: the locals of
\* _run_overpass_query are left as they were when it ended.
Finish(errors, contacted, answers) ==
    /\ osm_pc' = "done"
    /\ endpoint_errors' = errors
    /\ rq_contacted' = contacted
    /\ rq_answers' = answers
    /\ UNCHANGED <<osm_idx, rq_query, rq_ep>>

\* The caller of _run_overpass_query takes over after the call ended with
\* `end` (a return or the RuntimeError).
CallerResume(end, errors, contacted, answers) ==
    LET key == osm_keys[osm_idx]
        more == osm_idx < Len(osm_keys)
        next_query == [rq_query EXCEPT !.filter = DatasetFilter(osm_keys[osm_idx + 1])]
    IN  IF osm_mode = S_availability
        THEN LET ds == Append(datasets, AvailabilityEntry(key, end))
             IN  /\ datasets' = ds
                 /\ osm_query_ok' = Append(osm_query_ok, end.kind = "return")
                 /\ UNCHANGED merged_features
                 /\ IF more
                    THEN /\ osm_idx' = osm_idx + 1
                         /\ StartCall(next_query)
                         /\ UNCHANGED <<osm_pc, osm_resp>>
                    ELSE /\ Finish(errors, contacted, answers)
                         /\ osm_resp' = <<AvailabilityResponse(ds)>>
                         /\ UNCHANGED rq_result
        ELSE IF osm_mode = S_fetch
        THEN LET fc == FetchCategory(key, end)
             IN  /\ osm_query_ok' = Append(osm_query_ok, end.kind = "return")
                 /\ UNCHANGED datasets
                 /\ IF ~fc.ok
                    THEN /\ Finish(errors, contacted, answers)
                         /\ osm_resp' = <<OsmError(502, "OSM fetch failed",
                                                   [exc |-> fc.exc, entries |-> Len(end.msg)])>>
                         /\ UNCHANGED <<merged_features, rq_result>>
                    ELSE /\ merged_features' = merged_features \o fc.features
                         /\ IF more
                            THEN /\ osm_idx' = osm_idx + 1
                                 /\ StartCall(next_query)
                                 /\ UNCHANGED <<osm_pc, osm_resp>>
                            ELSE /\ Finish(errors, contacted, answers)
                                 /\ osm_resp' = <<FetchResponse(merged_features \o fc.features,
                                                                osm_keys)>>
                                 /\ UNCHANGED rq_result
        ELSE \* _run_overpass_query called on its own
             /\ Finish(errors, contacted, answers)
             /\ rq_result' = end
             /\ UNCHANGED <<osm_query_ok, datasets, merged_features, osm_resp>>

\* requests.post to the next endpoint of the list, and everything the code
\* does until the next request is sent or the answer is given.  osm_calls
\* counts the upstream calls of a fetch.
overpass_post ==
    /\ osm_pc = "query"
    /\ \E o \in (IF osm_mode \in {S_availability, S_fetch}
                 THEN OsmOutcomes ELSE OverpassOutcomes) :
        LET endpoint == _OVERPASS_ENDPOINTS[rq_ep]
            a == OverpassAttempt(endpoint, o)
            errors == IF a.returned THEN endpoint_errors
                      ELSE AppendDiag(endpoint_errors, a.diag)
            contacted == Append(rq_contacted, endpoint)
            answers == Append(rq_answers, o)
        IN  IF a.returned
            THEN CallerResume(Returned(a.json), errors, contacted, answers)
            ELSE IF rq_ep < Len(_OVERPASS_ENDPOINTS)
            THEN /\ rq_ep' = rq_ep + 1
                 /\ endpoint_errors' = errors
                 /\ rq_contacted' = contacted
                 /\ rq_answers' = answers
                 /\ UNCHANGED <<osm_pc, osm_idx, osm_query_ok, datasets, merged_features,
                                osm_resp, rq_query, rq_result>>
            ELSE CallerResume(Raised("RuntimeError", errors), errors, contacted, answers)
    /\ osm_contacted' = TRUE
    /\ osm_calls' = IF osm_mode = S_fetch THEN osm_calls + 1 ELSE osm_calls
    /\ UNCHANGED <<cc_vars, tk_vars, osm_payload, osm_mode, osm_keys, ts_vars, png_vars, fc_vars, geo_vars, wms_vars>>

OsmIdle ==
    /\ osm_pc = "idle"
    /\ osm_payload = JDict(NoFields)
    /\ osm_mode = <<>>
    /\ osm_keys = <<>>
    /\ osm_idx = 1
    /\ osm_query_ok = <<>>
    /\ osm_contacted = FALSE
    /\ osm_calls = 0
    /\ datasets = <<>>
    /\ merged_features = <<>>
    /\ osm_resp = <<>>
    /\ rq_query = NoQuery
    /\ rq_ep = 1
    /\ endpoint_errors = <<>>
    /\ rq_contacted = <<>>
    /\ rq_answers = <<>>
    /\ rq_result = NoResult

\* _run_overpass_query called on its own with some query text
RunQueries ==
    {OverpassQuery(S_availability, S_roads, <<0, 0, 10, 10>>),
     OverpassQuery(S_fetch, S_water, <<-90, -180, 90, 180>>)}

RunInit ==
    /\ osm_pc = "query"
    /\ osm_payload = JDict(NoFields)
    /\ osm_mode = <<"c", "a", "l", "l">>
    /\ osm_keys = <<>>
    /\ osm_idx = 1
    /\ osm_query_ok = <<>>
    /\ osm_contacted = FALSE
    /\ osm_calls = 0
    /\ datasets = <<>>
    /\ merged_features = <<>>
    /\ osm_resp = <<>>
    /\ rq_query \in RunQueries
    /\ rq_ep = 1
    /\ endpoint_errors = <<>>
    /\ rq_contacted = <<>>
    /\ rq_answers = <<>>
    /\ rq_result = NoResult

(***************************************************************************)
(* Specifications                                                          *)
(***************************************************************************)

Init == WmsInit /\ TileIdle /\ PngIdle /\ OsmIdle /\ FcIdle /\ GeoIdle /\ TokenIdle /\ CallersIdle

Next ==
    \/ bhuvan_wms_proxy_enter
    \/ bhuvan_session_get
    \/ bhuvan_wms_proxy_return

Spec == Init /\ [][Next]_vars

SpecTileInit == TileInit /\ WmsInit /\ PngIdle /\ OsmIdle /\ FcIdle /\ GeoIdle /\ TokenIdle
    /\ CallersIdle

SpecTileNext == get_tile_size_call

SpecTile == SpecTileInit /\ [][SpecTileNext]_vars

SpecOsmInit == OsmIdle /\ WmsInit /\ TileIdle /\ PngIdle /\ FcIdle /\ GeoIdle /\ TokenIdle
    /\ CallersIdle

SpecOsmNext ==
    \/ osm_query_enter
    \/ overpass_post

SpecOsm == SpecOsmInit /\ [][SpecOsmNext]_vars

SpecRunInit == RunInit /\ WmsInit /\ TileIdle /\ PngIdle /\ FcIdle /\ GeoIdle /\ TokenIdle
    /\ CallersIdle

SpecRunNext == overpass_post

SpecRun == SpecRunInit /\ [][SpecRunNext]_vars

SpecGeoInit == GeoIdle /\ WmsInit /\ TileIdle /\ PngIdle /\ OsmIdle /\ FcIdle /\ TokenIdle
    /\ CallersIdle

SpecGeoNext ==
    \/ geoserver_proxy_enter
    \/ geoserver_urlopen
    \/ geoserver_proxy_return

SpecGeo == SpecGeoInit /\ [][SpecGeoNext]_vars

SpecFcInit == FcInit /\ WmsInit /\ TileIdle /\ PngIdle /\ OsmIdle /\ GeoIdle /\ TokenIdle
    /\ CallersIdle

SpecFcNext == overpass_to_feature_collection_call

SpecFc == SpecFcInit /\ [][SpecFcNext]_vars

SpecPngInit == PngIdle /\ WmsInit /\ TileIdle /\ OsmIdle /\ FcIdle /\ GeoIdle /\ TokenIdle
    /\ CallersIdle

SpecPngNext == make_transparent_png_call

SpecPng == SpecPngInit /\ [][SpecPngNext]_vars

SpecTokInit == TokenInit /\ WmsInit /\ TileIdle /\ PngIdle /\ OsmIdle /\ FcIdle /\ GeoIdle
    /\ CallersIdle

SpecTokNext ==
    \/ token_proxy_enter
    \/ token_session_get
    \/ token_proxy_return

SpecTok == SpecTokInit /\ [][SpecTokNext]_vars

\* The two proxies share no state: a behaviour follows one inbound request
\* of one of them.  The upstream calls are made with timeout=30 and every branch of
\* both handlers returns, so a handler that can take its next step takes it.
SpecProxyNext ==
    \/ geo_pc = "idle" /\ wms_pc = "idle" /\ bhuvan_wms_proxy_enter
    \/ bhuvan_session_get
    \/ bhuvan_wms_proxy_return
    \/ wms_pc = "idle" /\ geoserver_proxy_enter
    \/ geoserver_urlopen
    \/ geoserver_proxy_return

\* The step of bhuvan_wms_proxy_return as the program counter shows it: the
\* step is enabled exactly at "returned" and no other step leaves it.
WmsReturnStep == wms_pc = "returned" /\ wms_pc' = "done"

SpecProxyLive ==
    /\ Init
    /\ [][SpecProxyNext]_vars
    /\ WF_vars(bhuvan_session_get)
    /\ WF_wms_pc(WmsReturnStep)
    /\ WF_vars(geoserver_urlopen)
    /\ WF_vars(geoserver_proxy_return)

\* A fetch request from its arrival to its answer.  requests.post is called
\* with timeout=45 and the code between two calls has no loop of its own, so
\* a request that has a call to make makes it.
osm_fetch_enter == osm_query_enter /\ osm_mode' = S_fetch

SpecFetchNext ==
    \/ osm_fetch_enter
    \/ overpass_post

SpecFetchLive ==
    /\ SpecOsmInit
    /\ [][SpecFetchNext]_vars
    /\ WF_vars(overpass_post)

SpecRaceInit ==
    CallersIdle /\ WmsInit /\ TileIdle /\ PngIdle /\ OsmIdle /\ FcIdle /\ GeoIdle /\ TokenIdle

SpecRaceNext ==
    \/ tile_response_enter
    \/ make_png_cache_get
    \/ make_png_cache_store

SpecRace == SpecRaceInit /\ [][SpecRaceNext]_vars

(***************************************************************************)
(* Properties of bhuvan_wms_proxy (specification Spec)                     *)
(***************************************************************************)

WmsAnswered == wms_pc = "done" /\ Len(wms_resp) = 1

WmsFailed ==
    wms_outcome.kind = "exc" \/ (wms_outcome.kind = "http" /\ wms_outcome.status # 200)

WmsIsGetMap == _get_request_type(wms_query) = GETMAP

\* C1: a GetMap request whose upstream call failed (non-200 status or any
\* exception) is answered 200 image/png with the transparent tile of the
\* resolved size and the header X-Proxy-WMS-Error "Bhuvan <status>"; no
\* GetMap request is answered with another status than 200.
C1_GetMapFailureGivesTile ==
    (WmsAnswered /\ WmsIsGetMap) =>
        LET r == wms_resp[1]
            sz == _get_tile_size(wms_query, DefaultTileSize)
        IN  /\ r.status = 200
            /\ WmsFailed =>
                /\ r.content_type = "image/png"
                /\ r.body = [kind |-> "png", png |-> EncodeTransparentPng(sz[1], sz[2])]
                /\ Cardinality(r.headers) = 1
                /\ \A hd \in r.headers :
                    /\ hd.name = "X-Proxy-WMS-Error"
                    /\ hd.text = "Bhuvan"
                    /\ IF wms_outcome.kind = "http"
                       THEN hd.status = wms_outcome.status
                       ELSE hd.status \in {500, 502, 504}

C1_Witness ==
    /\ WmsAnswered /\ WmsIsGetMap
    /\ wms_outcome.kind = "exc" /\ wms_outcome.exc = "ReadTimeout"
    /\ "request" \in DOMAIN wms_query /\ "HEIGHT" \in DOMAIN wms_query
    /\ wms_resp[1].status = 200
    /\ wms_resp[1].headers = {ProxyErrorHeader(504)}

\* C2: a request that is not GetMap and whose upstream call failed gets a
\* text/plain error: the upstream's status for a non-200 answer, 502 for an
\* SSL or connection error, 500 for an exception that is neither a
\* connection error nor a timeout.
C2_NonGetMapFailureStatus ==
    (WmsAnswered /\ ~WmsIsGetMap /\ WmsFailed) =>
        LET r == wms_resp[1]
            o == wms_outcome
        IN  /\ r.content_type = "text/plain"
            /\ r.body.kind = "text"
            /\ o.kind = "http" => r.status = o.status
            /\ (o.kind = "exc" /\ IsInstance(o.exc, "ConnectionError")) => r.status = 502
            /\ (o.kind = "exc" /\ ~IsInstance(o.exc, "ConnectionError")
                               /\ ~IsInstance(o.exc, "Timeout")) => r.status = 500

C2_Witness ==
    /\ WmsAnswered /\ ~WmsIsGetMap
    /\ "REQUEST" \in DOMAIN wms_query /\ wms_query["REQUEST"] = GetCapabilities
    /\ wms_outcome.kind = "exc" /\ wms_outcome.exc = "SSLError"
    /\ wms_resp[1].status = 502 /\ wms_resp[1].content_type = "text/plain"

\* C3: a request that is not GetMap and whose upstream call timed out
\* (while connecting or while reading) is answered 504 with a text body.
C3_NonGetMapTimeoutIs504 ==
    (WmsAnswered /\ ~WmsIsGetMap /\ wms_outcome.kind = "exc"
                 /\ IsInstance(wms_outcome.exc, "Timeout")) =>
        /\ wms_resp[1].status = 504
        /\ wms_resp[1].content_type = "text/plain"

\* C18: every response of bhuvan_wms_proxy is the upstream's answer passed
\* on (upstream success), the image/png tile (GetMap failure), or, on a
\* failure of a request that is not GetMap, text/plain with a status
\* outside 2xx, for every upstream status other than 200 (201 and 204
\* included).
C18_WmsTextErrorIsNever2xx ==
    WmsAnswered =>
        LET r == wms_resp[1]
        IN  \/ ~WmsFailed /\ r.body.kind = "upstream" /\ r.status = 200
            \/ WmsFailed /\ WmsIsGetMap /\ r.content_type = "image/png"
            \/ /\ WmsFailed /\ ~WmsIsGetMap
               /\ r.content_type = "text/plain"
               /\ r.status \notin 200..299

\* The casings of the parameter name that the inbound queries use
RequestNames == {"REQUEST", "request", "Request"}

\* C25: the request type is looked up under the parameter name in any
\* casing: a query that carries GetMap under REQUEST, request or Request
\* resolves to GETMAP, and its failed upstream call is answered with the
\* placeholder tile.
C25_RequestNameInAnyCasing ==
    (WmsAnswered /\ \E k \in RequestNames \cap DOMAIN wms_query :
                        Upper(wms_query[k]) = GETMAP) =>
        /\ _get_request_type(wms_query) = GETMAP
        /\ WmsFailed =>
            /\ wms_resp[1].status = 200
            /\ wms_resp[1].content_type = "image/png"
            /\ wms_resp[1].body.kind = "png"

(***************************************************************************)
(* Properties of the token-carrying proxies (specification SpecTok)        *)
(***************************************************************************)

TokenAnswered == tk_pc = "done" /\ Len(tk_resp) = 1

\* The upstream call was made and failed: another status than 200 or an
\* exception
TokenUpstreamFailed ==
    \/ tk_outcome.kind = "exc"
    \/ tk_outcome.kind = "http" /\ tk_outcome.status # 200

\* C26: the answer to a failed upstream call does not depend on the token:
\* the same request with any other token, meeting the same failure on the
\* same deployment, gets the same status, content type and body, and the
\* token of the request is no part of the body.
C26_ErrorResponseIndependentOfToken ==
    (TokenAnswered /\ TokenUpstreamFailed /\ "token" \in DOMAIN tk_query) =>
        /\ \A t \in TokenValues :
               TokenProxy(tk_handler, [tk_query EXCEPT !["token"] = t], tk_env, tk_debug,
                          tk_outcome) = tk_resp[1]
        /\ tk_query["token"] \notin tk_resp[1].body.shows

(***************************************************************************)
(* Properties of both proxies (specification SpecProxyLive)                *)
(***************************************************************************)

\* Upstream calls and responses of the request being served
OneCallOneResponse ==
    /\ wms_calls <= 1 /\ Len(wms_resp) <= 1
    /\ Len(geo_sent) <= 1 /\ Len(geo_resp) <= 1
    /\ wms_pc = "calling" => (wms_calls = 0 /\ wms_resp = <<>>)
    /\ wms_pc = "returned" => (wms_calls = 1 /\ wms_resp = <<>>)
    /\ wms_pc = "done" => (wms_calls = 1 /\ Len(wms_resp) = 1)
    /\ geo_pc = "calling" => (geo_sent = <<>> /\ geo_resp = <<>>)
    /\ geo_pc = "returned" => (Len(geo_sent) = 1 /\ geo_resp = <<>>)
    /\ geo_pc = "done" => (Len(geo_sent) = 1 /\ Len(geo_resp) = 1)

\* C28: bhuvan_wms_proxy and geoserver_proxy make one upstream call per
\* inbound request, none after a failed one, and every inbound request is
\* eventually answered, with one response.
C28_OneAttemptThenResponse ==
    /\ []OneCallOneResponse
    /\ (wms_pc = "calling") ~> (wms_pc = "done" /\ Len(wms_resp) = 1)
    /\ (geo_pc = "calling") ~> (geo_pc = "done" /\ Len(geo_resp) = 1)

C28_Witness ==
    /\ wms_pc = "done" /\ wms_calls = 1 /\ Len(wms_resp) = 1
    /\ wms_outcome.kind = "exc" /\ wms_outcome.exc = "ConnectionError"
    /\ ~WmsIsGetMap
    /\ wms_resp[1].status = 502

(***************************************************************************)
(* Properties of geoserver_proxy (specification SpecGeo)                   *)
(***************************************************************************)

GeoAnswered == geo_pc = "done" /\ Len(geo_resp) = 1

\* The upstream answered with a success status
GeoSucceeded == geo_outcome.kind = "http" /\ geo_outcome.status \in 200..299

\* C15: when the upstream call succeeds the client gets the upstream's
\* body, content type and status code unchanged, for every success status
\* (201 and 204 as well as 200).
C15_GeoSuccessMirrorsUpstream ==
    (GeoAnswered /\ GeoSucceeded) =>
        /\ geo_resp[1].status = geo_outcome.status
        /\ geo_resp[1].body = [kind |-> "upstream", len |-> geo_outcome.bodylen]
        /\ geo_outcome.ctype # "" => geo_resp[1].content_type = geo_outcome.ctype

\* The path suffix as it follows the base: with a leading "/" unless empty
ExpectedGeoPath(path) ==
    IF path = <<>> THEN <<>>
    ELSE IF path[1] = "/" THEN path
    ELSE <<"/">> \o path

\* C16: the single upstream request of geoserver_proxy uses the method of
\* the inbound request (GET or POST), the fixed base followed by the path
\* suffix, and the parameters of the inbound query string.
C16_GeoForwardsMethodPathQuery ==
    geo_pc \in {"returned", "done"} =>
        /\ Len(geo_sent) = 1
        /\ geo_sent[1].method = geo_request.method
        /\ geo_sent[1].base = "http://192.168.20.57:5855/geoserver"
        /\ geo_sent[1].path = ExpectedGeoPath(geo_request.path)
        /\ ParseQuery(geo_sent[1].query) = ParseQuery(geo_request.query)

\* C17: an upstream HTTP error is answered text/plain with the upstream's
\* status and at most 200 characters of its body, never by the 502
\* connection message; every transport failure of the call (DNS failure,
\* connection refused, timeout while connecting or while waiting for the
\* answer) is answered 502 with the text naming port 5855.
C17_GeoErrorMapping ==
    GeoAnswered =>
        LET r == geo_resp[1]
            o == geo_outcome
        IN  /\ (o.kind = "http" /\ o.status \notin 200..299) =>
                /\ r.content_type = "text/plain"
                /\ r.status = o.status
                /\ r.body.msg = "GeoServer proxy error"
                /\ r.body.detail = Min(o.bodylen, 200)
            /\ (o.kind = "transport"
                    /\ o.event \in {"dns_failure", "connection_refused", "connect_timeout",
                                    "response_timeout"}) =>
                /\ r.content_type = "text/plain"
                /\ r.status = 502
                /\ r.body.msg = "GeoServer connection error"
                /\ r.body.port = 5855

(***************************************************************************)
(* Properties of _get_tile_size (specification SpecTile)                   *)
(***************************************************************************)

\* What one axis must resolve to: the default when the parameter is absent
\* or no integer literal, else the integer clamped into [1, 4096].
ExpectedAxis(q, key) ==
    IF key \notin DOMAIN q THEN DefaultTileSize
    ELSE IF ~IntOfStr(q[key]).ok THEN DefaultTileSize
    ELSE IF IntOfStr(q[key]).v < 1 THEN 1
    ELSE IF IntOfStr(q[key]).v > 4096 THEN 4096
    ELSE IntOfStr(q[key]).v

\* C10: _get_tile_size resolves each axis on its own: clamp(v, 1, 4096) of
\* the parsed integer, 256 when the axis is absent or unparseable; (0, 5000)
\* gives (1, 4096) and ("abc", "64") gives (256, 64).
C10_TileSizeClampedPerAxis ==
    ts_pc = "returned" =>
        /\ ts_result = <<ExpectedAxis(ts_query, "WIDTH"), ExpectedAxis(ts_query, "HEIGHT")>>
        /\ ts_result[1] \in 1..4096 /\ ts_result[2] \in 1..4096
        /\ ts_query = ("WIDTH" :> <<"0">>) @@ ("HEIGHT" :> <<"5", "0", "0", "0">>)
              => ts_result = <<1, 4096>>
        /\ ts_query = ("WIDTH" :> <<"a", "b", "c">>) @@ ("HEIGHT" :> <<"6", "4">>)
              => ts_result = <<256, 64>>

C10_Witness ==
    /\ ts_pc = "returned"
    /\ ts_query = ("WIDTH" :> <<"a", "b", "c">>) @@ ("HEIGHT" :> <<"6", "4">>)
    /\ ts_result = <<256, 64>>

(***************************************************************************)
(* Properties of _make_transparent_png (specification SpecPng)             *)
(***************************************************************************)

PngCalled == png_result # NoPng

\* The big-endian unsigned integer of four bytes
UnpackU32(b) == ((b[1] * 256 + b[2]) * 256 + b[3]) * 256 + b[4]

\* C11: for width and height in [1, 4096] the bytes returned are the PNG
\* signature, then exactly one IHDR chunk (the width, the height, bit depth
\* 8, colour type 6, compression 0, filter 0, no interlace), exactly one
\* IDAT chunk and exactly one empty IEND chunk in that order, the IDAT
\* raster being `height` scan lines of one filter byte 0 and 4 * width zero
\* bytes.
C11_PngIsTransparentRaster ==
    (PngCalled /\ png_args[1] \in 1..4096 /\ png_args[2] \in 1..4096) =>
        LET c == png_result.chunks
            ihdr == BytesList(c[1].data)
            stride == 1 + 4 * png_args[1]
        IN  /\ png_result.signature = <<137, 80, 78, 71, 13, 10, 26, 10>>
            /\ Len(c) = 3
            /\ c[1].type = "IHDR" /\ c[2].type = "IDAT" /\ c[3].type = "IEND"
            /\ ~c[1].deflated
            /\ Len(ihdr) = 13
            /\ UnpackU32(SubSeq(ihdr, 1, 4)) = png_args[1]
            /\ UnpackU32(SubSeq(ihdr, 5, 8)) = png_args[2]
            /\ SubSeq(ihdr, 9, 13) = <<8, 6, 0, 0, 0>>
            /\ c[2].deflated
            /\ BytesLen(c[2].data) = png_args[2] * stride
            /\ \A i \in 1..Len(c[2].data) : c[2].data[i].byte = 0
            /\ c[3].data = <<>>

\* The 2 x 4096 tile, answered from the memo
C11_Witness ==
    /\ PngCalled /\ png_hit
    /\ png_args = <<2, 4096>>
    /\ BytesLen(png_result.chunks[2].data) = 4096 * 9

\* C12: every call returns exactly the bytes a fresh encoding of its
\* dimensions gives, whether it was answered from the memo or not and
\* whatever was asked for before; every memo entry is the encoding of its
\* key.
C12_PngDeterministic ==
    /\ PngCalled =>
        LET degenerate == png_args[1] <= 0 \/ png_args[2] <= 0
        IN  png_result = EncodeTransparentPng(IF degenerate THEN 1 ELSE png_args[1],
                                              IF degenerate THEN 1 ELSE png_args[2])
    /\ \A k \in DOMAIN tile_cache : tile_cache[k] = EncodeTransparentPng(k[1], k[2])

\* (1, 2) answered from the memo while (1, 1) and (2, 1) are in it too
C12_Witness ==
    /\ PngCalled /\ png_hit
    /\ png_args = <<1, 2>>
    /\ {<<1, 1>>, <<1, 2>>, <<2, 1>>} \subseteq DOMAIN tile_cache
    /\ png_result = EncodeTransparentPng(1, 2)

\* The width and height an IHDR chunk declares
IhdrSize(png) ==
    LET ihdr == BytesList(png.chunks[1].data)
    IN  <<UnpackU32(SubSeq(ihdr, 1, 4)), UnpackU32(SubSeq(ihdr, 5, 8))>>

\* C21: a call with width <= 0 or height <= 0 returns exactly the 1 x 1
\* tile, the bytes a call for (1, 1) returns, and stores it under key
\* (1, 1); no tile is built with zero rows or zero columns and no cache
\* key has a component below 1.
C21_DegenerateSizeIsOneByOne ==
    /\ (PngCalled /\ (png_args[1] <= 0 \/ png_args[2] <= 0)) =>
        /\ png_result = _make_transparent_png(tile_cache, 1, 1).data
        /\ IhdrSize(png_result) = <<1, 1>>
        /\ BytesLen(png_result.chunks[2].data) = 5
        /\ <<1, 1>> \in DOMAIN tile_cache
        /\ tile_cache[<<1, 1>>] = png_result
    /\ PngCalled =>
        /\ IhdrSize(png_result)[1] >= 1 /\ IhdrSize(png_result)[2] >= 1
        /\ BytesLen(png_result.chunks[2].data) >= 5
    /\ \A k \in DOMAIN tile_cache :
        /\ k[1] >= 1 /\ k[2] >= 1
        /\ IhdrSize(tile_cache[k]) = k

\* (0, 4096) asked for first: the memo holds (1, 1) and nothing else
C21_Witness ==
    /\ PngCalled /\ ~png_hit
    /\ png_args = <<0, 4096>>
    /\ DOMAIN tile_cache = {<<1, 1>>}
    /\ IhdrSize(png_result) = <<1, 1>>

(***************************************************************************)
(* Properties of the shared tile cache under concurrent requests           *)
(* (specification SpecRace)                                                *)
(***************************************************************************)

\* Every entry is the tile of its key, every key is a size the WMS proxy
\* can ask for, every caller that returned has the tile of its own size.
CacheConsistent ==
    /\ \A k \in DOMAIN tile_cache :
           /\ tile_cache[k] = EncodeTransparentPng(k[1], k[2])
           /\ IhdrSize(tile_cache[k]) = k
           /\ k[1] >= 1 /\ k[1] <= 4096 /\ k[2] >= 1 /\ k[2] <= 4096
    /\ \A p \in Callers :
           cc_pc[p] = "done" =>
               /\ IhdrSize(cc_result[p]) = _get_tile_size(cc_query[p], DefaultTileSize)
               /\ cc_result[p] = EncodeTransparentPng(CallerKey(p)[1], CallerKey(p)[2])
               /\ CallerKey(p) \in DOMAIN tile_cache

\* No step removes an entry or puts other bytes under its key.
CacheOnlyGrows ==
    \A k \in DOMAIN tile_cache :
        k \in DOMAIN tile_cache' /\ tile_cache'[k] = tile_cache[k]

\* C27: under every interleaving of the requests that call
\* _make_transparent_png (two requests that both miss the cache for one
\* size and both store included), every entry under (w, h) is the encoding
\* of (w, h), no entry is removed or replaced by other bytes, every caller
\* gets the tile of its own size, and every key lies in [1, 4096] x [1, 4096].
C27_CacheSafeUnderRaces == []CacheConsistent /\ [][CacheOnlyGrows]_vars

C27_Witness ==
    /\ \A p \in Callers : cc_pc[p] = "done" /\ ~cc_hit[p]
    /\ CallerKey(1) = CallerKey(2)
    /\ DOMAIN tile_cache = {CallerKey(1)}

(***************************************************************************)
(* Properties of _overpass_to_feature_collection (specification SpecFc)    *)
(***************************************************************************)

\* A JSON number; a JSON boolean counts too, as isinstance(v, (int, float))
\* counts it
NumericJson(v) == v.t = "int" \/ v.t = "bool"

\* The input is one way whose geometry is a list of objects
SingleWay(elements) ==
    /\ elements.t = "list" /\ Len(elements.items) = 1
    /\ elements.items[1].t = "dict"
    /\ DictGet(elements.items[1], "type") = JStr(S_way)
    /\ DictGet(elements.items[1], "geometry").t = "list"
    /\ \A i \in 1..Len(DictGet(elements.items[1], "geometry").items) :
           DictGet(elements.items[1], "geometry").items[i].t = "dict"

\* The [lon, lat] pairs of the usable vertices of the way, in their order
UsablePairs(elements) ==
    LET pts == DictGet(elements.items[1], "geometry").items
        Ok(pt) == NumericJson(DictGet(pt, "lon")) /\ NumericJson(DictGet(pt, "lat"))
        kept == SelectSeq(pts, Ok)
    IN  [i \in 1..Len(kept) |-> <<DictGet(kept[i], "lon"), DictGet(kept[i], "lat")>>]

UnusableNode(e) ==
    /\ e.t = "dict"
    /\ DictGet(e, "type") = JStr(S_node)
    /\ (DictGet(e, "lat").t # "int" \/ DictGet(e, "lon").t # "int")

\* The element is an object whose type is neither "node" nor "way"
UnknownType(e) ==
    e.t = "dict" /\ DictGet(e, "type") \notin {JStr(S_node), JStr(S_way)}

\* C14: whatever is missing, null or of the wrong type in the elements
\* (type, lat, lon, geometry, a vertex, tags), the translator returns a
\* FeatureCollection: no feature for a node without numeric lat and lon or
\* for an element of unknown type, a way built from its usable vertices,
\* the features in the order of their elements.
C14_TranslatorNeverFails ==
    fc_pc = "returned" =>
        LET items == IF fc_elements.t = "list" THEN fc_elements.items ELSE <<>>
            f == fc_result.features
        IN  /\ fc_result.ok
            /\ Len(f) <= Len(items)
            /\ (\A i \in 1..Len(items) : UnusableNode(items[i]) \/ UnknownType(items[i]))
                   => f = <<>>
            /\ \E pos \in [1..Len(f) -> 1..Len(items)] :
                   /\ \A i, j \in 1..Len(f) : i < j => pos[i] < pos[j]
                   /\ \A i \in 1..Len(f) :
                          /\ items[pos[i]].t = "dict"
                          /\ f[i].properties["osm_id"] = DictGet(items[pos[i]], "id")

\* The properties the translator must give the feature of `element`
ExpectedProps(element) ==
    LET tags == IF "tags" \in DOMAIN element.fields /\ element.fields["tags"].t = "dict"
                THEN element.fields["tags"].fields ELSE NoFields
        others == DOMAIN tags \ {"osm_id", "osm_type", "category"}
    IN  [k \in others |-> tags[k]]
        @@ ("osm_id" :> DictGet(element, "id"))
        @@ ("osm_type" :> DictGet(element, "type"))
        @@ ("category" :> JStr(S_roads))

\* C23: the properties of every feature are the tags of its element with
\* osm_id (the element's id), osm_type (node or way) and category (the
\* category asked for) put over them, also when the tags have entries
\* named osm_id, osm_type or category; every other tag is copied unchanged.
C23_ReservedPropertiesOverrideTags ==
    (fc_pc = "returned" /\ fc_result.ok) =>
        LET items == IF fc_elements.t = "list" THEN fc_elements.items ELSE <<>>
            f == fc_result.features
        IN  \E pos \in [1..Len(f) -> 1..Len(items)] :
                /\ \A i, j \in 1..Len(f) : i < j => pos[i] < pos[j]
                /\ \A i \in 1..Len(f) :
                       /\ items[pos[i]].t = "dict"
                       /\ f[i].properties = ExpectedProps(items[pos[i]])
                       /\ f[i].properties["osm_type"] \in {JStr(S_node), JStr(S_way)}
                       /\ f[i].properties["category"] = JStr(S_roads)

C23_Witness ==
    /\ fc_pc = "returned" /\ fc_result.ok
    /\ fc_elements = JList(<<TaggedWay(ReservedTags), TaggedNode(ReservedTags)>>)
    /\ Len(fc_result.features) = 2
    /\ fc_result.features[1].properties =
           ("osm_id" :> JInt(8)) @@ ("osm_type" :> JStr(S_way))
           @@ ("category" :> JStr(S_roads)) @@ ("name" :> JStr(<<"n">>))
    /\ fc_result.features[2].properties["osm_id"] = JInt(9)

(***************************************************************************)
(* Properties of _run_overpass_query (specification SpecRun)               *)
(***************************************************************************)

\* An answer with an HTTP success status and a body that parses as JSON
GoodAnswer(o) == o.kind = "response" /\ o.status \in 200..299 /\ o.body = "json"

\* The reason an entry must name for a failed answer
ExpectedReason(o) ==
    IF o.kind = "exc" THEN "failed"
    ELSE IF o.status >= 400 THEN "returned"
    ELSE IF o.body = "brace" THEN "returned invalid JSON payload"
    ELSE "returned non-JSON payload"

\* C4: the endpoints contacted by one call are a prefix of the configured
\* list in its order (so none twice), one more per step; no endpoint is
\* contacted after one that answered successfully with JSON, the call ends
\* there and returns that JSON, and the error is raised only after every
\* endpoint failed.
C4_FailoverStopsAtFirstSuccess ==
    LET n == Len(rq_contacted)
    IN  /\ rq_contacted = SubSeq(_OVERPASS_ENDPOINTS, 1, n)
        /\ Len(rq_answers) = n
        /\ osm_pc = "query" => rq_ep = n + 1
        /\ \A i \in 1..(n - 1) : ~GoodAnswer(rq_answers[i])
        /\ (n > 0 /\ GoodAnswer(rq_answers[n])) =>
               (osm_pc = "done" /\ rq_result = Returned(rq_answers[n].json))
        /\ rq_result.kind = "return" => (n > 0 /\ GoodAnswer(rq_answers[n]))
        /\ rq_result.kind = "raise" =>
               (n = Len(_OVERPASS_ENDPOINTS) /\ \A i \in 1..n : ~GoodAnswer(rq_answers[i]))

\* Mirror 1 answers 504, mirror 2 answers valid JSON: the call returned it.
C4_Witness ==
    /\ osm_pc = "done"
    /\ Len(rq_contacted) = 2
    /\ rq_answers[1].status = 504
    /\ rq_answers[2] = OverpassResponse(200, "json", J_count7, 40)
    /\ rq_result = Returned(J_count7)

\* C5: endpoint_errors holds one entry per failed endpoint, in endpoint
\* order, each naming that endpoint and its failure; when every endpoint
\* failed the RuntimeError carries exactly these entries, one per
\* configured endpoint.
C5_AggregateErrorNamesEveryEndpoint ==
    LET n == Len(rq_answers)
        failed == {i \in 1..n : ~GoodAnswer(rq_answers[i])}
    IN  /\ Len(endpoint_errors) = Cardinality(failed)
        /\ \A i \in 1..Len(endpoint_errors) :
            /\ i \in failed
            /\ endpoint_errors[i].endpoint = _OVERPASS_ENDPOINTS[i]
            /\ endpoint_errors[i].reason = ExpectedReason(rq_answers[i])
            /\ rq_answers[i].kind = "response" /\ rq_answers[i].status >= 400
                  => endpoint_errors[i].status = rq_answers[i].status
        /\ (osm_pc = "done" /\ Cardinality(failed) = Len(_OVERPASS_ENDPOINTS)) =>
               /\ rq_result = Raised("RuntimeError", endpoint_errors)
               /\ Len(rq_result.msg) = Len(_OVERPASS_ENDPOINTS)

C5_Witness ==
    /\ osm_pc = "done"
    /\ rq_result.kind = "raise"
    /\ Len(rq_result.msg) = Len(_OVERPASS_ENDPOINTS)
    /\ rq_result.msg[1].reason = "returned"
    /\ rq_result.msg[2].reason = "failed"
    /\ rq_result.msg[3].reason = "returned invalid JSON payload"

\* C22: every entry of endpoint_errors is cut to a bounded snippet: for an
\* HTTP error status, a non-JSON body, an invalid JSON body and a transport
\* exception alike, the text taken from the upstream body or from the
\* error is at most the snippet length (120), however long it was.
C22_DiagnosticsAreBounded ==
    \A i \in 1..Len(endpoint_errors) :
        endpoint_errors[i].len <= OverpassSnippet

(***************************************************************************)
(* Properties of osm_query (specification SpecOsm)                         *)
(***************************************************************************)

OsmAnswered == osm_pc = "done" /\ Len(osm_resp) = 1

OsmFailedCategories == {i \in 1..Len(osm_query_ok) : ~osm_query_ok[i]}

\* C6: availability mode queries each of the five categories whatever the
\* others did; the answer is 502 exactly when all five queries failed, else
\* 200 with partial = (some query failed), count = null and an error text
\* for the failed categories and an integer count for the other ones.
C6_AvailabilityPartialResults ==
    (OsmAnswered /\ osm_mode = S_availability /\ osm_contacted) =>
        LET r == osm_resp[1]
            ds == r.body.datasets
        IN  /\ Len(osm_query_ok) = 5
            /\ Len(ds) = 5
            /\ \A i \in 1..5 : ds[i].key = _OSM_DATASETS[i].key
            /\ r.status = 502 <=> Cardinality(OsmFailedCategories) = 5
            /\ r.status # 502 =>
                /\ r.status = 200
                /\ r.body.partial = (OsmFailedCategories # {})
            /\ \A i \in 1..5 :
                IF osm_query_ok[i]
                THEN ds[i].count.t = "int"
                ELSE ds[i].count = JNull /\ "error" \in DOMAIN ds[i]

\* The count the availability entry must carry for a parsed body: the total
\* tag of the first element, 0 whenever anything on the way to it is
\* missing or of another type.
ExpectedCount(json) ==
    LET elements == IF json.t = "dict" THEN DictGet(json, "elements") ELSE JNull
        first == IF elements.t = "list" /\ elements.items # <<>>
                 THEN elements.items[1] ELSE JNull
        tags == IF first.t = "dict" THEN DictGet(first, "tags") ELSE JNull
        total == IF tags.t = "dict" THEN DictGet(tags, "total") ELSE JNull
    IN  IF IntOf(total).ok THEN IntOf(total).v ELSE 0

\* C24: in availability mode every category whose query succeeded has an
\* integer count, never null: the total tag of the first element, or 0 on
\* any irregularity of the body (no elements, first element no object,
\* tags missing or of another type, total not a number).
C24_SuccessfulQueryHasIntegerCount ==
    (osm_mode = S_availability /\ osm_contacted) =>
        /\ \A i \in 1..Len(datasets) :
               osm_query_ok[i] => datasets[i].count.t = "int"
        /\ (osm_pc = "done" /\ rq_answers # <<>>
                /\ GoodAnswer(rq_answers[Len(rq_answers)])) =>
               datasets[Len(datasets)].count =
                   JInt(ExpectedCount(rq_answers[Len(rq_answers)].json))

\* C7: in fetch mode a failed query of any selected category gives 502
\* without features, however many categories had succeeded before; a
\* FeatureCollection is answered only when every selected category's query
\* succeeded.
C7_FetchAllOrNothing ==
    (OsmAnswered /\ osm_mode = S_fetch /\ osm_contacted) =>
        LET r == osm_resp[1]
        IN  /\ OsmFailedCategories # {} =>
                /\ r.status = 502
                /\ DOMAIN r.body = {"error"}
            /\ r.status = 200 =>
                /\ r.body.type = "FeatureCollection"
                /\ Len(osm_query_ok) = Len(osm_keys)
                /\ OsmFailedCategories = {}
            /\ r.status \in {200, 502}

\* The second of two selected categories fails after the first gave a feature.
C7_Witness ==
    /\ OsmAnswered /\ osm_mode = S_fetch
    /\ Len(osm_keys) = 2
    /\ osm_query_ok = <<TRUE, FALSE>>
    /\ merged_features # <<>>
    /\ osm_resp[1].status = 502

\* The payload's bbox is a list of four JSON integers
IntBbox(payload) ==
    LET b == DictGet(payload, "bbox")
    IN  b.t = "list" /\ Len(b.items) = 4 /\ \A i \in 1..4 : b.items[i].t = "int"

\* [minLon, minLat, maxLon, maxLat] is in range and min < max on both axes
ValidBbox(payload) ==
    LET b == DictGet(payload, "bbox").items
    IN  /\ b[1].i \in -180..180 /\ b[3].i \in -180..180
        /\ b[2].i \in -90..90 /\ b[4].i \in -90..90
        /\ b[1].i < b[3].i
        /\ b[2].i < b[4].i

\* The client-input errors that can be read off the payload
ClientInputError(payload) ==
    LET b == DictGet(payload, "bbox")
        m == DictGet(payload, "mode")
        c == DictGet(payload, "categories")
        fetch == m \in {JStr(S_fetch), JStr(<<" ", "F", "e", "t", "c", "h", " ">>)}
    IN  \/ b.t # "list"
        \/ Len(b.items) # 4
        \/ \E i \in 1..Len(b.items) : b.items[i].t \in {"null", "list", "dict"}
        \/ \E i \in 1..Len(b.items) : b.items[i] = JStr(<<"x">>)
        \/ IntBbox(payload) /\ ~ValidBbox(payload)
        \/ m \in {JStr(<<"p", "u", "r", "g", "e">>), JInt(5)}
        \/ fetch /\ (c.t # "list" \/ c.items = <<>>)
        \/ fetch /\ c.t = "list"
                 /\ \A i \in 1..Len(c.items) :
                        c.items[i].t \in {"str", "int"} /\ c.items[i] \notin
                            {JStr(k) : k \in {S_roads, S_buildings, S_amenities,
                                              S_water, S_green}}

\* C8: whenever the answer is 400 no Overpass endpoint was contacted while
\* the request was handled, and every client-input error (bbox not a list
\* of four, non-numeric, out of range or min >= max, unknown mode,
\* categories missing / empty / not a list, no known category) is answered
\* 400, no endpoint being contacted at any point before.
C8_ClientErrorsBeforeAnyCall ==
    /\ (OsmAnswered /\ osm_resp[1].status = 400) =>
           (~osm_contacted /\ rq_contacted = <<>> /\ rq_answers = <<>>)
    /\ (osm_pc # "idle" /\ ClientInputError(osm_payload)) =>
           /\ ~osm_contacted
           /\ OsmAnswered
           /\ osm_resp[1].status = 400

C8_Witness ==
    /\ OsmAnswered
    /\ DictGet(osm_payload, "mode") = JStr(S_fetch)
    /\ DictGet(osm_payload, "bbox") = GoodBbox
    /\ DictGet(osm_payload, "categories") = JList(<<JStr(S_bogus), JStr(S_bogus)>>)
    /\ osm_resp[1].status = 400
    /\ ~osm_contacted

\* The request was refused because of its bbox
BboxRefused ==
    /\ OsmAnswered
    /\ osm_resp[1].status = 400
    /\ osm_resp[1].body.error.msg \in
           {"bbox must be [minLon, minLat, maxLon, maxLat].",
            "bbox values must be numeric.",
            "bbox coordinates are out of range.",
            "bbox min values must be smaller than max values."}

FetchRequest(payload) ==
    /\ OsmMode(payload) = S_fetch
    /\ IntBbox(payload) /\ ValidBbox(payload)
    /\ DictGet(payload, "categories").t = "list"
    /\ DictGet(payload, "categories").items # <<>>

\* The requested categories that are known keys, in request order
KnownRequested(payload) ==
    LET Known(c) == c \in {JStr(S_roads), JStr(S_buildings), JStr(S_amenities),
                           JStr(S_water), JStr(S_green)}
        kept == SelectSeq(DictGet(payload, "categories").items, Known)
    IN  [i \in 1..Len(kept) |-> kept[i].s]

\* C19: in fetch mode the requested categories are filtered to the known
\* keys in request order; an empty filtered list is answered 400; else the
\* geometry queries are run one per filtered category in that order, and
\* the FeatureCollection answered holds the features in that order and the
\* filtered list as its categories.
C19_FetchFiltersAndConcatenates ==
    (osm_pc # "idle" /\ FetchRequest(osm_payload)) =>
        LET wanted == KnownRequested(osm_payload)
        IN  /\ wanted = <<>> =>
                (OsmAnswered /\ osm_resp[1].status = 400 /\ ~osm_contacted)
            /\ wanted # <<>> =>
                /\ osm_keys = wanted
                /\ osm_idx \in 1..Len(wanted)
                /\ rq_query.filter = DatasetFilter(wanted[osm_idx])
                /\ rq_query.out = "body geom"
                /\ osm_pc = "query" => Len(osm_query_ok) = osm_idx - 1
                /\ OsmAnswered => osm_resp[1].status \in {200, 502}
                /\ (OsmAnswered /\ osm_resp[1].status = 200) =>
                    LET f == osm_resp[1].body.features
                    IN  /\ Len(osm_query_ok) = Len(wanted)
                        /\ osm_resp[1].body.type = "FeatureCollection"
                        /\ osm_resp[1].body.categories = wanted
                        /\ f = merged_features
                        /\ \E pos \in [1..Len(f) -> 1..Len(wanted)] :
                               /\ \A i, j \in 1..Len(f) : i < j => pos[i] <= pos[j]
                               /\ \A i \in 1..Len(f) :
                                      f[i].properties["category"] = JStr(wanted[pos[i]])

\* C20: every query issued for an accepted bbox [minLon, minLat, maxLon,
\* maxLat] carries it as minLat, minLon, maxLat, maxLon (south, west,
\* north, east), in availability and in fetch mode.
C20_BboxSouthWestNorthEast ==
    (osm_pc # "idle" /\ rq_query # NoQuery) =>
        LET b == DictGet(osm_payload, "bbox").items
        IN  /\ osm_mode \in {S_availability, S_fetch}
            /\ rq_query.bbox = <<FloatOf(b[2]).v, FloatOf(b[1]).v,
                                 FloatOf(b[4]).v, FloatOf(b[3]).v>>

\* A fetch of [1, 2, 30, 40] that queried 2, 1, 40, 30
C20_Witness ==
    /\ OsmAnswered /\ osm_mode = S_fetch /\ osm_contacted
    /\ DictGet(osm_payload, "bbox") = JInts(<<1, 2, 30, 40>>)
    /\ rq_query.bbox = <<2, 1, 40, 30>>
    /\ osm_resp[1].status = 200

(***************************************************************************)
(* Properties of a fetch (specification SpecFetchLive)                     *)
(***************************************************************************)

\* The categories of a fetch are queried in order, none after a failed one
FetchInOrder ==
    (osm_mode = S_fetch /\ osm_pc # "idle") =>
        LET E == Len(_OVERPASS_ENDPOINTS)
            n == Len(osm_query_ok)
        IN  /\ osm_calls <= Len(osm_keys) * E
            /\ n <= Len(osm_keys)
            /\ \A i \in 1..(n - 1) : osm_query_ok[i]
            /\ osm_pc = "query" =>
                /\ n = osm_idx - 1
                /\ \A i \in 1..n : osm_query_ok[i]
                /\ osm_calls >= n + Len(rq_contacted)
                /\ osm_calls <= n * E + Len(rq_contacted)
            /\ (n > 0 /\ ~osm_query_ok[n]) =>
                /\ osm_pc = "done"
                /\ osm_calls <= n * E
                /\ osm_resp[1].status = 502
            /\ osm_pc = "done" => Len(osm_resp) = 1

\* Once a category failed no further upstream call is made.
NoCallAfterFailure ==
    (osm_mode = S_fetch /\ \E i \in 1..Len(osm_query_ok) : ~osm_query_ok[i]) =>
        (osm_calls' = osm_calls /\ rq_contacted' = rq_contacted)

\* C29: a fetch queries its selected categories one after another and stops
\* at the first whose query failed: no endpoint is contacted for a later
\* category, the upstream calls are at most (selected categories) x
\* (configured endpoints), and the handler ends with a response.
C29_FetchStopsAtFirstFailure ==
    /\ []FetchInOrder
    /\ [][NoCallAfterFailure]_vars
    /\ (osm_pc = "query") ~> (osm_pc = "done" /\ Len(osm_resp) = 1)

C29_Witness ==
    /\ osm_mode = S_fetch /\ osm_pc = "done"
    /\ Len(osm_keys) >= 2
    /\ osm_query_ok = <<FALSE>>
    /\ osm_calls = Len(_OVERPASS_ENDPOINTS)
    /\ osm_resp[1].status = 502

====
